---- MODULE Spec2Model ----
(***************************************************************************)
(* Guitar-Shopping-Assistant: the orchestration core.                      *)
(*                                                                         *)
(* The model follows src/agents/orchestrator.py: the keyword intent        *)
(* classifier, the intent -> agents table, the LangGraph workflow          *)
(* (parse_intent, information_node, recommendation_node, negotiation_node, *)
(* synthesize_response), the two routing helpers and the public            *)
(* process_customer_query. The three agents are modelled by what they      *)
(* return (a formatted response whose content the generation backend       *)
(* chooses) or by the exception the backend raises.                        *)
(*                                                                         *)
(* Python values: a str is a TLA+ string, a list is a sequence, a dict is  *)
(* a record (the empty dict and the empty list are << >>), None is PyNone. *)
(* An argument of process_customer_query carries its Python type:          *)
(* NoneArg, ListArg(l) or DictArg(d).                                      *)
(* TLA+ strings are ASCII: the emoji of the section headings and the       *)
(* arrow / dash of two literals are written as ASCII stand-ins, noted      *)
(* where they occur.                                                       *)
(***************************************************************************)
EXTENDS Integers, Sequences, FiniteSets, TLC

VARIABLES
    pc,             \* position of the current process_customer_query call
    args,           \* the arguments of the current call: query, history, preferences
    state,          \* the AgentState threaded through the graph
    trace,          \* the graph nodes executed so far in this call, in order
    calls,          \* the agent calls made so far in this call, with their arguments
    backendRaised,  \* the generation backend raised during this call
    result,         \* what process_customer_query returned (PyNone until it returns)
    chats,          \* st.session_state.chats: the messages of "Chat 1", "Chat 2", ...
    active_chat,    \* st.session_state.active_chat: the number of the active chat
    catalog,        \* the documents of the catalog file (NoneArg: the file is missing)
    index_on_disk,  \* the directory faiss_index_offline exists
    _rag_instance,  \* utils/rag.py's global: 0 for None, else the number of an instance
    instances,      \* the GuitarKnowledgeRAG instances created so far, by number
    threads,        \* per session (a thread of its own): the instances its agents hold and its position in get_rag_system / retrieve
    demo            \* quickstart.py: where the script is, its demos, what it printed

\* the variables of the orchestrator and of the front end
orchestrator_vars == <<pc, args, state, trace, calls, backendRaised, result, chats, active_chat>>

\* the variables of the retrieval system
ragvars == <<catalog, index_on_disk, _rag_instance, instances, threads>>

vars == <<pc, args, state, trace, calls, backendRaised, result, chats, active_chat,
         ragvars, demo>>

\* messages = st.session_state.chats[st.session_state.active_chat]
messages == chats[active_chat]

-----------------------------------------------------------------------------
(* Bounds of the model *)

\* a query is the concatenation of at most MaxPieces pieces of QueryPieces
MaxPieces == 2
\* the caller-supplied history has at most MaxHistory turns
MaxHistory == 1
\* the largest number of messages of the front end's chats together, two for
\* every query submitted: its user turn and the answer it gets unless the call
\* raises
MaxMessages == 4
\* the largest number of chats of one front-end session: one chat for every
\* two messages, a last single one included
MaxChats == (MaxMessages + 1) \div 2

-----------------------------------------------------------------------------
(* Python helpers *)

PyNone == [py_none |-> TRUE]

\* the values a caller passes, tagged with their Python type
NoneArg    == [kind |-> "none"]
ListArg(l) == [kind |-> "list", v |-> l]
DictArg(d) == [kind |-> "dict", v |-> d]

\* "x in lst" for a list
InList(x, lst) == \E i \in 1..Len(lst) : lst[i] = x

Upper == <<"A","B","C","D","E","F","G","H","I","J","K","L","M",
           "N","O","P","Q","R","S","T","U","V","W","X","Y","Z">>
LowerOf == <<"a","b","c","d","e","f","g","h","i","j","k","l","m",
             "n","o","p","q","r","s","t","u","v","w","x","y","z">>

\* str.lower() of one character
LowerChar(c) ==
    IF \E i \in 1..26 : Upper[i] = c
    THEN LowerOf[CHOOSE i \in 1..26 : Upper[i] = c]
    ELSE c

\* str.lower()
RECURSIVE str_lower(_)
str_lower(s) ==
    IF s = "" THEN ""
    ELSE LowerChar(SubSeq(s, 1, 1)) \o str_lower(SubSeq(s, 2, Len(s)))

\* "kw in q" for two strings: kw occurs as a substring of q
str_in(kw, q) ==
    \E i \in 1..(Len(q) - Len(kw) + 1) : SubSeq(q, i, i + Len(kw) - 1) = kw

\* sep.join(lst) for a list of strings
RECURSIVE str_join(_, _)
str_join(sep, lst) ==
    IF lst = << >> THEN ""
    ELSE IF Len(lst) = 1 THEN lst[1]
    ELSE lst[1] \o sep \o str_join(sep, Tail(lst))

-----------------------------------------------------------------------------
(* Intent constants and the intent -> agents table *)

INTENT_INFO      == "information_request"
INTENT_RECOMMEND == "recommendation_request"
INTENT_PRICE     == "price_inquiry"
INTENT_COMPARE   == "comparison_request"
INTENT_GENERAL   == "general_inquiry"

Intents == {INTENT_INFO, INTENT_RECOMMEND, INTENT_PRICE, INTENT_COMPARE, INTENT_GENERAL}

\* a table in which a price inquiry activates the negotiator alone
INTENT_AGENT_MAP_NoInfoForPrice ==
    [i \in Intents |->
        CASE i = INTENT_INFO      -> <<"information">>
          [] i = INTENT_RECOMMEND -> <<"information", "recommendation">>
          [] i = INTENT_PRICE     -> <<"negotiation">>
          [] i = INTENT_COMPARE   -> <<"information", "recommendation">>
          [] i = INTENT_GENERAL   -> <<"information">>]

\* a table in which a comparison activates all three responders
INTENT_AGENT_MAP_CompareAllThree ==
    [i \in Intents |->
        CASE i = INTENT_INFO      -> <<"information">>
          [] i = INTENT_RECOMMEND -> <<"information", "recommendation">>
          [] i = INTENT_PRICE     -> <<"information", "negotiation">>
          [] i = INTENT_COMPARE   -> <<"information", "recommendation", "negotiation">>
          [] i = INTENT_GENERAL   -> <<"information">>]

INTENT_AGENT_MAP ==
    [i \in Intents |->
        CASE i = INTENT_INFO      -> <<"information">>
          [] i = INTENT_RECOMMEND -> <<"information", "recommendation">>
          [] i = INTENT_PRICE     -> <<"information", "negotiation">>
          [] i = INTENT_COMPARE   -> <<"information", "recommendation">>
          [] i = INTENT_GENERAL   -> <<"information">>]

-----------------------------------------------------------------------------
(* The intent classifier *)

price_kw == <<"price", "cost", "expensive", "cheap", "discount", "deal",
              "afford", "budget", "how much", "negotiate", "offer">>
rec_kw   == <<"recommend", "suggest", "best", "suitable", "good for",
              "which guitar", "what should", "help me choose", "pick",
              "looking for", "want to buy", "buying", "need a guitar",
              "purchase", "buy", "shop">>
\* the information keywords without "difference"
info_kw_NoDifference ==
    <<"tell me", "explain", "what is", "how does",
      "type", "brand", "brands", "models", "features",
      "specification", "specs", "about", "info", "information",
      "browse", "show", "list", "available">>
info_kw  == <<"tell me", "explain", "what is", "how does", "difference",
              "type", "brand", "brands", "models", "features",
              "specification", "specs", "about", "info", "information",
              "browse", "show", "list", "available">>
comp_kw  == <<"compare", "vs", "versus", "between", "or">>

\* sum(1 for kw in kws if kw in q)
KeywordScore(kws, q) == Cardinality({i \in 1..Len(kws) : str_in(kws[i], q)})

\* the keys of the scores dict, in insertion order
ScoreKeys == <<INTENT_PRICE, INTENT_RECOMMEND, INTENT_INFO, INTENT_COMPARE>>

\* the scores dict of _classify_intent for the lower-cased query q
Scores(q) ==
    [i \in {INTENT_PRICE, INTENT_RECOMMEND, INTENT_INFO, INTENT_COMPARE} |->
        CASE i = INTENT_PRICE     -> KeywordScore(price_kw, q)
          [] i = INTENT_RECOMMEND -> KeywordScore(rec_kw, q)
          [] i = INTENT_INFO      -> KeywordScore(info_kw, q)
          [] i = INTENT_COMPARE   -> KeywordScore(comp_kw, q)]

\* max(keys, key=val.get): the first key, in iteration order, whose value no
\* other key exceeds
PyMaxKey(keys, val) ==
    LET first == CHOOSE i \in 1..Len(keys) :
                    /\ \A j \in 1..Len(keys) : val[keys[j]] <= val[keys[i]]
                    /\ \A j \in 1..(i - 1) : val[keys[j]] < val[keys[i]]
    IN keys[first]

\* a classifier that asks for two hits before it leaves general_inquiry
_classify_intent_TwoHits(query) ==
    LET q      == str_lower(query)
        scores == Scores(q)
        best   == PyMaxKey(ScoreKeys, scores)
    IN IF scores[best] > 1 THEN best ELSE INTENT_GENERAL

_classify_intent(query) ==
    LET q      == str_lower(query)
        scores == Scores(q)
        best   == PyMaxKey(ScoreKeys, scores)
    IN IF scores[best] > 0 THEN best ELSE INTENT_GENERAL


-----------------------------------------------------------------------------
(* The inputs of process_customer_query *)

\* the queries the specification's scenarios name
ScenarioQueries ==
    { "Can you recommend a guitar for jazz on a budget?",
      "I want to negotiate a discount on a Les Paul",
      "What's the difference between a Stratocaster and a Telecaster?" }

\* pieces that queries are built from: keywords of two lists (one in upper
\* case)
QueryPieces ==
    { "Price ", "buy " }

RECURSIVE QueriesOf(_)
QueriesOf(n) ==
    IF n = 0 THEN {""}
    ELSE LET shorter == QueriesOf(n - 1)
         IN shorter \cup {s \o p : s \in shorter, p \in QueryPieces}

\* the queries of a call: those built from the pieces, the scenarios, a query
\* of the one intent that neither of them reaches ("vs "), a fragment that
\* hits no list ("sh") and a keyword that two such fragments form ("shop")
Queries ==
    QueriesOf(MaxPieces) \cup ScenarioQueries \cup {"vs ", "sh", "shop"}

\* an earlier conversation; a caller seeds the history with its first turns
PriorConversation ==
    << [role |-> "user", content |-> "guitar "],
       [role |-> "assistant", content |-> "Hello"],
       [role |-> "user", content |-> "Price "] >>

HistoriesOf(n) ==
    {SubSeq(PriorConversation, 1, k) : k \in 0..(IF n < 3 THEN n ELSE 3)}

\* the history argument: a list of turns, or None (the default)
Histories == {NoneArg} \cup {ListArg(h) : h \in HistoriesOf(MaxHistory)}

\* the preferences argument: a mapping, the empty mapping, or None (the default)
Preferences ==
    { NoneArg, DictArg(<< >>),
      DictArg([budget |-> "Budget ($0-500)", skill_level |-> "Beginner"]) }

\* what the generation backend does on one call: it returns text (possibly
\* empty) or it raises
Contents == {"", "Some prose."}
BackendOutcomes ==
    {[raised |-> TRUE]} \cup {[raised |-> FALSE, content |-> c] : c \in Contents}

-----------------------------------------------------------------------------
(* utils/data_utils.py and the three agents *)

\* bool(x) for a dict, a list or None
Truthy(x) == x # PyNone /\ x # << >>

\* datetime.now().isoformat() is modelled by a logical clock value `now`
format_agent_response(agent_name, content, metadata, now) ==
    [agent     |-> agent_name,
     timestamp |-> now,
     content   |-> content,
     metadata  |-> IF Truthy(metadata) THEN metadata ELSE << >>]

\* an agent that catches the backend's exception and answers with no content
process_information_request_Swallow(customer_query, history, out, now) ==
    [raised |-> FALSE,
     value  |-> format_agent_response(
                    "Information Agent",
                    IF out.raised THEN "" ELSE out.content,
                    [query |-> customer_query, knowledge_base_used |-> TRUE,
                     retrieved_chunks |-> 5],
                    now)]

\* InformationAgent.process_information_request: chain.invoke either raises
\* (nothing catches it) or yields response.content
process_information_request(customer_query, history, out, now) ==
    IF out.raised
    THEN [raised |-> TRUE]
    ELSE [raised |-> FALSE,
          value  |-> format_agent_response(
                         "Information Agent",
                         out.content,
                         [query |-> customer_query, knowledge_base_used |-> TRUE,
                          retrieved_chunks |-> 5],
                         now)]

\* RecommendationAgent.recommend_guitars
recommend_guitars(preferences, history, out, now) ==
    IF out.raised
    THEN [raised |-> TRUE]
    ELSE [raised |-> FALSE,
          value  |-> format_agent_response(
                         "Recommendation Agent",
                         out.content,
                         [preferences |-> preferences,
                          recommendation_type |-> "personalized",
                          recommendation_count |-> "3-5",
                          knowledge_base_used |-> TRUE],
                         now)]

\* NegotiatorAgent.handle_price_inquiry
handle_price_inquiry(guitar_model, quantity, out, now) ==
    IF out.raised
    THEN [raised |-> TRUE]
    ELSE [raised |-> FALSE,
          value  |-> format_agent_response(
                         "Price Negotiator Agent",
                         out.content,
                         [guitar_model |-> guitar_model, quantity |-> quantity,
                          inquiry_type |-> "price_inquiry"],
                         now)]

-----------------------------------------------------------------------------
(* The workflow nodes: each takes the AgentState and returns it updated *)

\* lst[:-1]
DropLast(lst) == SubSeq(lst, 1, Len(lst) - 1)

\* INTENT_AGENT_MAP.get(intent, ["information"])
INTENT_AGENT_MAP_get(intent) ==
    IF intent \in DOMAIN INTENT_AGENT_MAP THEN INTENT_AGENT_MAP[intent]
    ELSE <<"information">>

\* a parsing step that puts its system turn at the head of the history
_parse_customer_intent_Prepends(st) ==
    LET query         == st.customer_query
        intent        == _classify_intent(query)
        active_agents == INTENT_AGENT_MAP_get(intent)
    IN [st EXCEPT
          !.intent = intent,
          !.active_agents = active_agents,
          !.current_stage = "intent_parsing",
          !.conversation_history =
              <<[role    |-> "system",
                 content |-> "Detected intent: " \o intent
                             \o " -> activating: "
                             \o str_join(", ", active_agents)]>> \o @]

\* the " -> " of the system turn stands for the source's arrow character
_parse_customer_intent(st) ==
    LET query         == st.customer_query
        intent        == _classify_intent(query)
        active_agents == INTENT_AGENT_MAP_get(intent)
    IN [st EXCEPT
          !.intent = intent,
          !.active_agents = active_agents,
          !.current_stage = "intent_parsing",
          !.conversation_history =
              Append(@, [role    |-> "system",
                         content |-> "Detected intent: " \o intent
                                     \o " -> activating: "
                                     \o str_join(", ", active_agents)])]

\* a node that hands the preferences to the information agent too
information_call_WithPreferences(st) ==
    [agent          |-> "information",
     customer_query |-> st.customer_query,
     history        |-> DropLast(st.conversation_history),
     preferences    |-> st.preferences]

\* the arguments _run_information_agent calls the information agent with
information_call(st) ==
    [agent          |-> "information",
     customer_query |-> st.customer_query,
     history        |-> DropLast(st.conversation_history)]

\* a node that records the agent's turn only when it has content
_run_information_agent_SkipEmptyTurn(st, response) ==
    [st EXCEPT
       !.information_response = response,
       !.current_stage = "information_gathering",
       !.conversation_history =
           IF response.content = "" THEN @
           ELSE Append(@, [role    |-> "agent",
                           agent   |-> "Information Agent",
                           content |-> response.content])]

_run_information_agent(st, response) ==
    [st EXCEPT
       !.information_response = response,
       !.current_stage = "information_gathering",
       !.conversation_history =
           Append(@, [role    |-> "agent",
                      agent   |-> "Information Agent",
                      content |-> response.content])]

\* the arguments _run_recommendation_agent calls the recommendation agent with
recommendation_call(st) ==
    [agent       |-> "recommendation",
     preferences |-> st.preferences,
     history     |-> DropLast(st.conversation_history)]

\* a recommendation node that signs its turn as the Information Agent
_run_recommendation_agent_WrongName(st, response) ==
    [st EXCEPT
       !.recommendation_response = response,
       !.current_stage = "recommendation",
       !.conversation_history =
           Append(@, [role    |-> "agent",
                      agent   |-> "Information Agent",
                      content |-> response.content])]

_run_recommendation_agent(st, response) ==
    [st EXCEPT
       !.recommendation_response = response,
       !.current_stage = "recommendation",
       !.conversation_history =
           Append(@, [role    |-> "agent",
                      agent   |-> "Recommendation Agent",
                      content |-> response.content])]

\* the arguments _run_negotiation_agent calls the negotiator with
negotiation_call(st) ==
    [agent        |-> "negotiation",
     guitar_model |-> st.customer_query,
     quantity     |-> 1]

\* a negotiation node that takes the negotiator off the active list
_run_negotiation_agent_DropsActive(st, response) ==
    [st EXCEPT
       !.negotiation_response = response,
       !.current_stage = "negotiation",
       !.active_agents = <<"information">>,
       !.conversation_history =
           Append(@, [role    |-> "agent",
                      agent   |-> "Price Negotiator Agent",
                      content |-> response.content])]

_run_negotiation_agent(st, response) ==
    [st EXCEPT
       !.negotiation_response = response,
       !.current_stage = "negotiation",
       !.conversation_history =
           Append(@, [role    |-> "agent",
                      agent   |-> "Price Negotiator Agent",
                      content |-> response.content])]

\* the section headings; [books], [sparkles], [money] stand for the emoji
InfoHeading == "### [books] Guitar Info\n"
RecHeading  == "### [sparkles] Recommendations\n"
NegHeading  == "### [money] Pricing & Deals\n"

\* the fallback body; " - " stands for the source's dash character
FallbackBody == "I'm not sure how to help with that - could you rephrase?"

\* the closing lines; [guitar] stands for the emoji
Closing ==
    "\n\n---\n*Feel free to ask me more - I'm here to help you find your perfect guitar!* [guitar]\n"

\* a section that is written even when the responder's content is empty
Section_NoContentTest(name, heading, active, response) ==
    IF InList(name, active) /\ Truthy(response)
    THEN <<heading \o response.content>>
    ELSE << >>

\* the section of one responder, as a list of zero or one strings:
\* if "<name>" in active and state.get("<name>_response"): content = ...; if content: append
Section(name, heading, active, response) ==
    IF InList(name, active) /\ Truthy(response) /\ response.content # ""
    THEN <<heading \o response.content>>
    ELSE << >>

\* a synthesizer that does not look at the active set
SectionsOf_IgnoreActive(st) ==
    LET all == <<"information", "recommendation", "negotiation">>
    IN Section("information", InfoHeading, all, st.information_response)
       \o Section("recommendation", RecHeading, all, st.recommendation_response)
       \o Section("negotiation", NegHeading, all, st.negotiation_response)

\* a synthesizer that puts the pricing section first
SectionsOf_NegotiationFirst(st) ==
    LET active == st.active_agents
    IN Section("negotiation", NegHeading, active, st.negotiation_response)
       \o Section("information", InfoHeading, active, st.information_response)
       \o Section("recommendation", RecHeading, active, st.recommendation_response)

\* the sections list _synthesize_response builds
SectionsOf(st) ==
    LET active == st.active_agents
    IN Section("information", InfoHeading, active, st.information_response)
       \o Section("recommendation", RecHeading, active, st.recommendation_response)
       \o Section("negotiation", NegHeading, active, st.negotiation_response)

\* a synthesizer that returns an empty body when no section qualifies
BodyOf_NoFallback(sections) == str_join("\n\n", sections)

\* body = "\n\n".join(sections) if sections else <fallback>
BodyOf(sections) ==
    IF sections # << >> THEN str_join("\n\n", sections) ELSE FallbackBody

\* a synthesizer that leaves the completion flag as it found it
_synthesize_response_NoFlag(st) ==
    LET body == BodyOf(SectionsOf(st))
    IN [st EXCEPT
          !.final_response = body \o Closing,
          !.current_stage = "complete"]

_synthesize_response(st) ==
    LET body == BodyOf(SectionsOf(st))
    IN [st EXCEPT
          !.final_response = body \o Closing,
          !.current_stage = "complete",
          !.workflow_complete = TRUE]

-----------------------------------------------------------------------------
(* Routing helpers: the name of the next node *)

\* routing that never visits the recommendation node
_route_after_information_SkipRecommendation(st) ==
    IF InList("negotiation", st.active_agents) THEN "negotiation_node"
    ELSE "synthesize_response"

_route_after_information(st) ==
    LET active == st.active_agents
    IN IF InList("recommendation", active) THEN "recommendation_node"
       ELSE IF InList("negotiation", active) THEN "negotiation_node"
       ELSE "synthesize_response"

_route_after_recommendation(st) ==
    LET active == st.active_agents
    IN IF InList("negotiation", active) THEN "negotiation_node"
       ELSE "synthesize_response"

-----------------------------------------------------------------------------
(* process_customer_query *)

\* the initial_state process_customer_query builds
initial_state(query, history, preferences) ==
    LET h               == IF history.kind = "none" THEN << >> ELSE history.v
        current_history == h \o <<[role |-> "user", content |-> query]>>
    IN [customer_query          |-> query,
        conversation_history    |-> current_history,
        intent                  |-> "",
        active_agents           |-> << >>,
        information_response    |-> << >>,
        recommendation_response |-> << >>,
        negotiation_response    |-> << >>,
        final_response          |-> "",
        current_stage           |-> "initialized",
        workflow_complete       |-> FALSE,
        preferences             |-> IF preferences.kind # "none" /\ preferences.v # << >>
                                    THEN preferences.v ELSE << >>]

\* resp and resp.get("content")
RanWithContent(resp) == Truthy(resp) /\ resp.content # ""

\* agents_involved without the test of the content
agents_involved_NoContentTest(res) ==
    SelectSeq(<<res.information_response, res.recommendation_response,
                res.negotiation_response>>, Truthy)

\* the agents_involved list built from the graph's result
agents_involved(res) ==
    SelectSeq(<<res.information_response, res.recommendation_response,
                res.negotiation_response>>, RanWithContent)

\* the dict process_customer_query returns
ReturnValue(res) ==
    [status               |-> "success",
     final_response       |-> res.final_response,
     conversation_history |-> res.conversation_history,
     agents_involved      |-> agents_involved(res),
     metadata             |-> [intent            |-> res.intent,
                               active_agents     |-> res.active_agents,
                               workflow_complete |-> res.workflow_complete,
                               final_stage       |-> res.current_stage]]

-----------------------------------------------------------------------------
(* utils/rag.py: the retrieval system. A document is its page_content; the  *)
(* vector index (FAISS) and the embedding model are the environment's: what *)
(* they do on one call is an input of the model.                            *)

\* the catalog file: missing, or with three guitars
CatalogTexts ==
    << "Fender Strat",
       "Gibson LP",
       "Fender Jazz" >>
ShippedCatalog == ListArg(CatalogTexts)
Catalogs == {NoneArg, ShippedCatalog}

\* the calls of retrieve: a query and k
RagCalls == {[query |-> "zzz", k |-> 5], [query |-> "Jazz  fender", k |-> 1]}

\* not self.documents
NoDocuments(documents) == documents.kind = "none" \/ documents.v = << >>

\* the whitespace characters of str.split() and str.isspace() that a string
\* of the model can hold (a string here is ASCII text with the escapes
\* \t \n \f \r; Python also splits at \x0b, \x1c-\x1f and at the spaces
\* beyond ASCII, which no string of the model contains)
Whitespace == {" ", "\t", "\n", "\f", "\r"}

\* str.split(): the maximal runs of non-whitespace characters
RECURSIVE SplitFrom(_, _, _)
SplitFrom(s, i, word) ==
    IF i > Len(s)
    THEN IF word = "" THEN << >> ELSE <<word>>
    ELSE LET c == SubSeq(s, i, i)
         IN IF c \in Whitespace
            THEN (IF word = "" THEN << >> ELSE <<word>>) \o SplitFrom(s, i + 1, "")
            ELSE SplitFrom(s, i + 1, word \o c)
py_split(s) == SplitFrom(s, 1, "")

\* score = sum(1 for word in query_words if word in content)
MatchScore(query_words, page_content) ==
    LET content == str_lower(page_content)
    IN Cardinality({i \in 1..Len(query_words) : str_in(query_words[i], content)})

\* scores.sort(key=lambda x: x[0], reverse=True): a stable sort, the entries
\* of one score keep their order; hi is the highest score to place
RECURSIVE SortedFrom(_, _)
SortedFrom(scores, hi) ==
    IF hi = 0 THEN << >>
    ELSE SelectSeq(scores, LAMBDA x : x.score = hi) \o SortedFrom(scores, hi - 1)

\* GuitarKnowledgeRAG._keyword_search
_keyword_search(documents, query, k) ==
    IF NoDocuments(documents) THEN <<"No catalog data available.">>
    ELSE LET query_words == py_split(str_lower(query))
             all    == [i \in 1..Len(documents.v) |->
                          [score   |-> MatchScore(query_words, documents.v[i]),
                           content |-> documents.v[i]]]
             scores == SortedFrom(SelectSeq(all, LAMBDA x : x.score > 0), Len(query_words))
             top    == SubSeq(scores, 1, IF k < Len(scores) THEN k ELSE Len(scores))
         IN [i \in 1..Len(top) |-> top[i].content]

NoInformationFound == "No relevant information found in the knowledge base."

\* the context retrieve_with_context formats from what retrieve returned
FormatContext(results) ==
    IF results = << >> THEN NoInformationFound
    ELSE "Guitar Catalog Excerpts:\n"
         \o str_join("\n\n", [i \in 1..Len(results) |->
                                  "--- CATALOG ENTRY " \o ToString(i) \o " ---\n"
                                  \o results[i]])

\* self.vectorstore: None, or an index over texts
NoIndex == [present |-> FALSE, texts |-> << >>]
Index(texts) == [present |-> TRUE, texts |-> texts]

\* the texts of an index found on disk: an earlier run saved it from the catalog
DiskTexts == CatalogTexts

\* GuitarKnowledgeRAG.__init__ and load_knowledge_base
GuitarKnowledgeRAG(file) ==
    [documents |-> file, vectorstore |-> NoIndex, embeddings |-> FALSE]

\* the permutations of a finite set, as sequences
Orderings(S) ==
    {s \in [1..Cardinality(S) -> S] : \A i, j \in 1..Cardinality(S) : s[i] = s[j] => i = j}

\* vectorstore.similarity_search(query, k): FAISS returns the texts of the k
\* nearest chunks of the index, nearest first. Which chunks are nearest is
\* decided by the embedding model, which the model does not hold: the answer
\* is any k (all, when the index holds fewer) of the entries of the index, in
\* any order
similarity_search(vectorstore, query, k) ==
    LET n == Len(vectorstore.texts)
        m == IF k < n THEN k ELSE n
    IN UNION {{[i \in 1..m |-> vectorstore.texts[p[i]]] : p \in Orderings(S)} :
                 S \in {T \in SUBSET (1..n) : Cardinality(T) = m}}

\* the sessions that use the retrieval system, each in a thread of its own
Threads == {"t1", "t2"}

\* a session whose orchestrator has not been constructed. rag holds, for the
\* information, the recommendation and the negotiation agent in the order
\* the orchestrator constructs them, the number of the instance its self.rag
\* is bound to (0: not yet); agent is the agent under construction; using is
\* the instance a retrieve call is running on. The other fields describe the
\* retrieve call of the thread for the properties of the retrieval system:
\* its arguments, what it returned and through which path (results, path,
\* context), whether it called _create_vectorstore (called_create), got
\* past that method's first test (attempted), assigned self.vectorstore
\* (assigned), which library call's exception its except clause caught
\* (raised_at), and how the build of the thread's call before failed, if it
\* did (earlier: "failed" with no index set, "save_failed" with the index
\* set) and on which instance (earlier_on)
NotStarted ==
    [pc |-> "start", rag |-> <<0, 0, 0>>, agent |-> 0, using |-> 0, site |-> "",
     query |-> "", k |-> 0, path |-> "", results |-> << >>, context |-> "",
     called_create |-> FALSE, attempted |-> FALSE, assigned |-> FALSE,
     raised_at |-> "", earlier |-> "", earlier_on |-> 0]

\* the module has been imported: _rag_instance = None
RagImported(file, disk) ==
    /\ catalog = file
    /\ index_on_disk = disk
    /\ _rag_instance = 0
    /\ instances = << >>
    /\ threads = [t \in Threads |-> NotStarted]

\* the session whose process_customer_query calls the orchestrator variables
\* describe
Caller == "t1"

\* a session whose agents hold the instances rag and which is in no retrieve
Ready(rag) == [NotStarted EXCEPT !.pc = "ready", !.rag = rag]

\* GuitarShoppingOrchestrator.__init__ has run once in a fresh process and no
\* other session has started: the first agent constructed created the
\* instance in get_rag_system and the two after it got the same
OrchestratorConstructed(file, disk) ==
    /\ catalog = file
    /\ index_on_disk = disk
    /\ _rag_instance = 1
    /\ instances = <<GuitarKnowledgeRAG(file)>>
    /\ threads = [t \in Threads |-> IF t = Caller THEN Ready(<<1, 1, 1>>) ELSE NotStarted]

\* the instances get_rag_system creates at most: a session creates one only
\* when it finds the global None, which it does for the first of its agents
\* or for none
MaxInstances == Cardinality(Threads)

-----------------------------------------------------------------------------
(* The steps of a thread in the retrieval system. A step holds one access to *)
(* what the threads share (the global _rag_instance, the attributes of an    *)
(* instance, the index directory) or one call of the embedding or FAISS      *)
(* library, with the thread's own computation up to its next such access.    *)
(* With observe, the thread records its call for the properties of the       *)
(* retrieval system; without, it records nothing (the excerpts go into the   *)
(* prompt of the agent's backend call, whose reply is an input of the model).*)

\* GuitarShoppingOrchestrator.__init__ begins: it constructs the information
\* agent first, whose __init__ calls get_rag_system
construct_orchestrator(me) == [me EXCEPT !.pc = "get_rag_system", !.agent = 1]

\* get_rag_system, the test "_rag_instance is None"
get_rag_system_test(t) ==
    /\ threads[t].pc = "get_rag_system"
    /\ threads' = [threads EXCEPT ![t] =
                      [@ EXCEPT !.pc = IF _rag_instance = 0 THEN "create_instance"
                                       ELSE "return_instance"]]
    /\ UNCHANGED <<catalog, index_on_disk, _rag_instance, instances>>

\* get_rag_system, "_rag_instance = GuitarKnowledgeRAG()": the constructor
\* reads the catalog file, the new instance is bound to the global
get_rag_system_create(t) ==
    /\ threads[t].pc = "create_instance"
    /\ instances' = Append(instances, GuitarKnowledgeRAG(catalog))
    /\ _rag_instance' = Len(instances) + 1
    /\ threads' = [threads EXCEPT ![t] = [@ EXCEPT !.pc = "return_instance"]]
    /\ UNCHANGED <<catalog, index_on_disk>>

\* get_rag_system, "return _rag_instance": the agent's self.rag is what the
\* global holds now; the orchestrator's constructor goes on to its next
\* agent, or is over
get_rag_system_return(t) ==
    /\ threads[t].pc = "return_instance"
    /\ threads' = [threads EXCEPT ![t] =
                      LET rag == [@.rag EXCEPT ![threads[t].agent] = _rag_instance]
                      IN IF threads[t].agent < Len(@.rag)
                         THEN [@ EXCEPT !.rag = rag, !.pc = "get_rag_system",
                                        !.agent = threads[t].agent + 1]
                         ELSE [@ EXCEPT !.rag = rag, !.pc = "ready", !.agent = 0]]
    /\ UNCHANGED <<catalog, index_on_disk, _rag_instance, instances>>

\* the thread in no retrieve, as it is after the call whose record is me
CallOver(me) ==
    LET earlier == IF me.raised_at = "save_local" THEN "save_failed"
                   ELSE IF me.attempted /\ ~me.assigned THEN "failed"
                   ELSE ""
    IN [Ready(me.rag) EXCEPT !.earlier = earlier,
                             !.earlier_on = IF earlier = "" THEN 0 ELSE me.using]

\* an except clause of retrieve that lets the exception out
retrieve_except_Propagates(me, where) ==
    [me EXCEPT !.raised_at = where, !.pc = "raised"]

\* the except clause of retrieve caught the exception the library call
\* `where` raised: it prints, and retrieve goes on to the keyword search
retrieve_except(me, where) ==
    [me EXCEPT !.raised_at = where, !.pc = "keyword_search"]

\* retrieve returns (retrieve_with_context then formats the context): the
\* thread records the call, or keeps nothing of it. The arguments
\* query and k of the call are first read by the search that answers, where
\* the model draws them
retrieve_returns(t, me, path, observe) ==
    IF ~observe
    THEN threads' = [threads EXCEPT ![t] = [Ready(me.rag) EXCEPT !.pc = "returned"]]
    ELSE \E call \in RagCalls :
            \E results \in IF path = "vector"
                           THEN similarity_search(instances[me.using].vectorstore,
                                                  call.query, call.k)
                           ELSE {_keyword_search(instances[me.using].documents,
                                                 call.query, call.k)} :
               threads' = [threads EXCEPT ![t] =
                              [me EXCEPT !.pc = "returned", !.query = call.query,
                                         !.k = call.k, !.path = path, !.results = results,
                                         !.context = FormatContext(results)]]

\* the library call `where` raised inside the try block of retrieve
retrieve_raised(t, me, where, observe) ==
    LET caught == retrieve_except(me, where)
    IN IF caught.pc = "raised"
       THEN threads' = [threads EXCEPT ![t] = caught]
       ELSE retrieve_returns(t, caught, "keyword", observe)

\* retrieve on instance i, the test "self.vectorstore is None": with no index
\* the thread calls _create_vectorstore, else it goes to the search (an
\* index is never taken away from an instance, so the test
\* "self.vectorstore is not None" that follows finds the same)
retrieve_test(t, i, observe) ==
    /\ threads[t].pc = "ready"
    /\ threads' = [threads EXCEPT ![t] =
                      IF instances[i].vectorstore.present
                      THEN [@ EXCEPT !.pc = "similarity_search", !.using = i]
                      ELSE [@ EXCEPT !.pc = "_create_vectorstore", !.using = i,
                                     !.called_create = observe]]
    /\ UNCHANGED <<catalog, index_on_disk, _rag_instance, instances>>

\* _create_vectorstore, the test "self.vectorstore is not None": another
\* thread may have set the index since the test of retrieve
_create_vectorstore_test(t, observe) ==
    /\ threads[t].pc = "_create_vectorstore"
    /\ threads' = [threads EXCEPT ![t] =
                      IF instances[threads[t].using].vectorstore.present
                      THEN [@ EXCEPT !.pc = "second_test"]
                      ELSE [@ EXCEPT !.pc = "path_exists", !.attempted = observe]]
    /\ UNCHANGED <<catalog, index_on_disk, _rag_instance, instances>>

\* _create_vectorstore from "if not self.documents: return" on: with no
\* documents it returns, else it splits them and asks for the embeddings
build_from_documents(me, self) ==
    IF NoDocuments(self.documents) THEN [me EXCEPT !.pc = "second_test", !.site = ""]
    ELSE [me EXCEPT !.pc = "_get_embeddings", !.site = "build"]

\* _create_vectorstore, os.path.exists(vectorstore_path)
path_exists(t) ==
    /\ threads[t].pc = "path_exists"
    /\ threads' = [threads EXCEPT ![t] =
                      IF index_on_disk THEN [@ EXCEPT !.pc = "_get_embeddings", !.site = "load"]
                      ELSE build_from_documents(@, instances[threads[t].using])]
    /\ UNCHANGED <<catalog, index_on_disk, _rag_instance, instances>>

\* _create_vectorstore once _get_embeddings returned: with embeddings it
\* loads the index from disk or builds it from the documents; without, the
\* load is skipped, and the build returns
got_embeddings(me, self, embeddings) ==
    IF me.site = "load"
    THEN IF embeddings THEN [me EXCEPT !.pc = "load_local", !.site = ""]
         ELSE build_from_documents(me, self)
    ELSE IF embeddings THEN [me EXCEPT !.pc = "from_documents", !.site = ""]
         ELSE [me EXCEPT !.pc = "second_test", !.site = ""]

\* _get_embeddings, the test "self.embeddings is None": embeddings once
\* loaded stay, and are returned
_get_embeddings_test(t) ==
    /\ threads[t].pc = "_get_embeddings"
    /\ threads' = [threads EXCEPT ![t] =
                      IF instances[threads[t].using].embeddings
                      THEN got_embeddings(@, instances[threads[t].using], TRUE)
                      ELSE [@ EXCEPT !.pc = "load_embeddings"]]
    /\ UNCHANGED <<catalog, index_on_disk, _rag_instance, instances>>

\* _get_embeddings, HuggingFaceEmbeddings(...): the model loads and is bound
\* to self.embeddings, or the constructor raises, the except clause prints,
\* and "return self.embeddings" returns what the attribute holds by then
load_embeddings(t) ==
    /\ threads[t].pc = "load_embeddings"
    /\ \E loaded \in BOOLEAN :
          LET i    == threads[t].using
              self == instances[i]
          IN IF loaded
             THEN /\ instances' = [instances EXCEPT ![i] = [@ EXCEPT !.embeddings = TRUE]]
                  /\ threads' = [threads EXCEPT ![t] = got_embeddings(@, self, TRUE)]
             ELSE /\ threads' = [threads EXCEPT ![t] = got_embeddings(@, self, self.embeddings)]
                  /\ UNCHANGED instances
    /\ UNCHANGED <<catalog, index_on_disk, _rag_instance>>

\* _create_vectorstore, "self.vectorstore = FAISS.load_local(...)" and the
\* return; if load_local raises, the except clause prints and the method
\* goes on to build the index
load_local(t, observe) ==
    /\ threads[t].pc = "load_local"
    /\ \E loaded \in BOOLEAN :
          LET i == threads[t].using
          IN IF loaded
             THEN /\ instances' = [instances EXCEPT ![i] =
                                      [@ EXCEPT !.vectorstore = Index(DiskTexts)]]
                  /\ threads' = [threads EXCEPT ![t] =
                                    [@ EXCEPT !.pc = "second_test", !.assigned = observe]]
             ELSE /\ threads' = [threads EXCEPT ![t] = build_from_documents(@, instances[i])]
                  /\ UNCHANGED instances
    /\ UNCHANGED <<catalog, index_on_disk, _rag_instance>>

\* _create_vectorstore, "self.vectorstore = FAISS.from_documents(chunks,
\* embeddings)"; if from_documents raises, the exception leaves
\* _create_vectorstore with nothing assigned
from_documents(t, observe) ==
    /\ threads[t].pc = "from_documents"
    /\ \E built \in BOOLEAN :
          LET i == threads[t].using
          IN IF built
             THEN /\ instances' = [instances EXCEPT ![i] =
                                      [@ EXCEPT !.vectorstore = Index(instances[i].documents.v)]]
                  /\ threads' = [threads EXCEPT ![t] =
                                    [@ EXCEPT !.pc = "save_local", !.assigned = observe]]
             ELSE /\ retrieve_raised(t, threads[t], "from_documents", observe)
                  /\ UNCHANGED instances
    /\ UNCHANGED <<catalog, index_on_disk, _rag_instance>>

\* _create_vectorstore, os.makedirs and self.vectorstore.save_local(...),
\* then the return; if one of them raises, the exception leaves
\* _create_vectorstore after self.vectorstore was assigned, and the
\* directory may have been created
save_local(t, observe) ==
    /\ threads[t].pc = "save_local"
    /\ \E saved \in BOOLEAN :
          IF saved
          THEN /\ index_on_disk' = TRUE
               /\ threads' = [threads EXCEPT ![t] = [@ EXCEPT !.pc = "second_test"]]
          ELSE /\ \E created \in BOOLEAN : index_on_disk' = (index_on_disk \/ created)
               /\ retrieve_raised(t, threads[t], "save_local", observe)
    /\ UNCHANGED <<catalog, _rag_instance, instances>>

\* retrieve, the test "self.vectorstore is not None" after _create_vectorstore
\* returned: with an index the search follows, without one the keyword search
second_test(t, observe) ==
    /\ threads[t].pc = "second_test"
    /\ IF instances[threads[t].using].vectorstore.present
       THEN threads' = [threads EXCEPT ![t] = [@ EXCEPT !.pc = "similarity_search"]]
       ELSE retrieve_returns(t, threads[t], "keyword", observe)
    /\ UNCHANGED <<catalog, index_on_disk, _rag_instance, instances>>

\* retrieve, self.vectorstore.similarity_search(query, k=k) and the return of
\* the texts found; if the search raises, the keyword search answers
vector_search(t, observe) ==
    /\ threads[t].pc = "similarity_search"
    /\ \E found \in BOOLEAN :
          IF found THEN retrieve_returns(t, threads[t], "vector", observe)
          ELSE retrieve_raised(t, threads[t], "similarity_search", observe)
    /\ UNCHANGED <<catalog, index_on_disk, _rag_instance, instances>>

\* a step of the retrieve call thread t is in, after its first test
retrieve_step(t, observe) ==
    \/ _create_vectorstore_test(t, observe)
    \/ path_exists(t)
    \/ _get_embeddings_test(t)
    \/ load_embeddings(t)
    \/ load_local(t, observe)
    \/ from_documents(t, observe)
    \/ save_local(t, observe)
    \/ second_test(t, observe)
    \/ vector_search(t, observe)

\* chain.invoke of the agent's method of thread t has answered or raised: the
\* thread is in no retrieve any more
agent_replied(t) ==
    /\ threads[t].pc = "returned"
    /\ threads' = [threads EXCEPT ![t] = Ready(threads[t].rag)]
    /\ UNCHANGED <<catalog, index_on_disk, _rag_instance, instances>>

\* Python lists are objects: two names may be bound to the same list. The
\* identity of a list is written as a record: the lists of the module-level
\* INTENT_AGENT_MAP live as long as the module, a list built during a call
\* belongs to that call, a list the caller passed in belongs to the caller.
ModuleList(intent) == [space |-> "module", name |-> "INTENT_AGENT_MAP", key |-> intent]
CallList(name)     == [space |-> "call", name |-> name, key |-> ""]

CallerList(name)   == [space |-> "caller", name |-> name, key |-> ""]

\* a process_customer_query that appends the user turn to the list it was given
conversation_history_object_InPlace(history) ==
    IF history.kind = "list" THEN CallerList("history") ELSE CallList("history")

\* the object state["conversation_history"] is bound to: "history + [...]"
\* builds a new list, whatever history is
conversation_history_object(history) == CallList("current_history")

\* the arguments as the caller sees them once a node has appended to
\* state["conversation_history"]: the caller's list grows only if it is the
\* list the state holds
caller_args(a, st) ==
    IF conversation_history_object(a.history) = CallerList("history")
    THEN [a EXCEPT !.history = ListArg(st.conversation_history)]
    ELSE a

-----------------------------------------------------------------------------
(* The state machine *)

NoArgs == [query |-> "", history |-> NoneArg, preferences |-> NoneArg]

\* quickstart.py is not running
NoDemo == [pc |-> "off", demo_queries |-> << >>, idx |-> 0, printed |-> << >>]

\* the process has started and utils.rag is imported; no orchestrator is
\* constructed yet. The catalog file is there or missing, and the index
\* directory exists (an earlier process saved it) or not
Init ==
    /\ pc = "idle"
    /\ args = NoArgs
    /\ state = initial_state("", NoneArg, NoneArg)
    /\ trace = << >>
    /\ calls = << >>
    /\ backendRaised = FALSE
    /\ result = PyNone
    /\ chats = << << >> >>
    /\ active_chat = 1
    /\ \E file \in Catalogs, disk \in BOOLEAN : RagImported(file, disk)
    /\ demo = NoDemo

\* a caller calls process_customer_query(query, history, preferences): the
\* initial state is built and graph.invoke starts at the entry point
StartInvocation ==
    /\ pc = "idle"
    /\ threads[Caller].pc = "ready"
    /\ \E query \in Queries, history \in Histories, preferences \in Preferences :
          /\ args' = [query |-> query, history |-> history, preferences |-> preferences]
          /\ state' = initial_state(query, history, preferences)
    /\ pc' = "parse_intent"
    /\ trace' = << >>
    /\ calls' = << >>
    /\ backendRaised' = FALSE
    /\ result' = PyNone
    /\ UNCHANGED <<chats, active_chat, ragvars, demo>>

\* node parse_intent, then the edge parse_intent -> information_node
ParseIntent ==
    /\ pc = "parse_intent"
    /\ state' = _parse_customer_intent(state)
    /\ trace' = Append(trace, "parse_intent")
    /\ pc' = "information_node"
    /\ args' = caller_args(args, state')
    /\ UNCHANGED <<calls, backendRaised, result, chats, active_chat, ragvars, demo>>

\* a session constructs its orchestrator
ConstructOrchestrator(t) ==
    /\ threads[t].pc = "start"
    /\ threads' = [threads EXCEPT ![t] = construct_orchestrator(@)]
    /\ UNCHANGED <<catalog, index_on_disk, _rag_instance, instances, orchestrator_vars, demo>>

GetRagSystemTest(t) ==
    /\ get_rag_system_test(t)
    /\ UNCHANGED <<orchestrator_vars, demo>>

GetRagSystemCreate(t) ==
    /\ get_rag_system_create(t)
    /\ UNCHANGED <<orchestrator_vars, demo>>

GetRagSystemReturn(t) ==
    /\ get_rag_system_return(t)
    /\ UNCHANGED <<orchestrator_vars, demo>>

\* the nodes that call an agent
ResponderNodes == {"information_node", "recommendation_node", "negotiation_node"}

\* the place in a session's rag of the agent whose method a responder node
\* calls
NodeAgent(node) ==
    CASE node = "information_node"    -> 1
      [] node = "recommendation_node" -> 2
      [] node = "negotiation_node"    -> 3

\* a responder node has called its agent's method, whose first statement is
\* self.rag.retrieve_with_context(...): retrieve tests self.vectorstore of
\* the instance that agent holds
AgentRetrieveTest ==
    /\ pc \in ResponderNodes
    /\ retrieve_test(Caller, threads[Caller].rag[NodeAgent(pc)], FALSE)
    /\ UNCHANGED <<orchestrator_vars, demo>>

\* the agent's retrieve goes on by one step; when it has returned, the
\* agent's method waits in chain.invoke, and the AgentState is as the node
\* found it
AgentRetrieveStep ==
    /\ pc \in ResponderNodes
    /\ retrieve_step(Caller, FALSE)
    /\ UNCHANGED <<orchestrator_vars, demo>>

\* node information_node, from the reply of the backend call on: the agent's
\* method returns or raises, the node updates the AgentState, then the
\* conditional edge; an exception of the agent leaves graph.invoke and
\* process_customer_query
RunInformationAgent ==
    /\ pc = "information_node"
    /\ agent_replied(Caller)
    /\ \E out \in BackendOutcomes :
          LET call == information_call(state)
              r    == process_information_request(call.customer_query, call.history,
                                                  out, Len(calls))
          IN /\ calls' = Append(calls, call)
             /\ backendRaised' = (backendRaised \/ out.raised)
             /\ IF r.raised
                THEN /\ pc' = "raised"
                     /\ UNCHANGED state
                ELSE /\ state' = _run_information_agent(state, r.value)
                     /\ pc' = _route_after_information(state')
    /\ trace' = Append(trace, "information_node")
    /\ args' = caller_args(args, state')
    /\ UNCHANGED <<result, chats, active_chat, demo>>

\* node recommendation_node, from the reply of the backend call on, then its
\* conditional edge
RunRecommendationAgent ==
    /\ pc = "recommendation_node"
    /\ agent_replied(Caller)
    /\ \E out \in BackendOutcomes :
          LET call == recommendation_call(state)
              r    == recommend_guitars(call.preferences, call.history, out, Len(calls))
          IN /\ calls' = Append(calls, call)
             /\ backendRaised' = (backendRaised \/ out.raised)
             /\ IF r.raised
                THEN /\ pc' = "raised"
                     /\ UNCHANGED state
                ELSE /\ state' = _run_recommendation_agent(state, r.value)
                     /\ pc' = _route_after_recommendation(state')
    /\ trace' = Append(trace, "recommendation_node")
    /\ args' = caller_args(args, state')
    /\ UNCHANGED <<result, chats, active_chat, demo>>

\* node negotiation_node, from the reply of the backend call on, then the edge
\* negotiation_node -> synthesize_response
RunNegotiationAgent ==
    /\ pc = "negotiation_node"
    /\ agent_replied(Caller)
    /\ \E out \in BackendOutcomes :
          LET call == negotiation_call(state)
              r    == handle_price_inquiry(call.guitar_model, call.quantity, out, Len(calls))
          IN /\ calls' = Append(calls, call)
             /\ backendRaised' = (backendRaised \/ out.raised)
             /\ IF r.raised
                THEN /\ pc' = "raised"
                     /\ UNCHANGED state
                ELSE /\ state' = _run_negotiation_agent(state, r.value)
                     /\ pc' = "synthesize_response"
    /\ trace' = Append(trace, "negotiation_node")
    /\ args' = caller_args(args, state')
    /\ UNCHANGED <<result, chats, active_chat, demo>>

\* node synthesize_response, then the edge synthesize_response -> END
SynthesizeResponse ==
    /\ pc = "synthesize_response"
    /\ state' = _synthesize_response(state)
    /\ trace' = Append(trace, "synthesize_response")
    /\ pc' = "END"
    /\ UNCHANGED <<args, calls, backendRaised, result, chats, active_chat, ragvars, demo>>

\* graph.invoke returned: process_customer_query builds and returns its dict
Return ==
    /\ pc = "END"
    /\ result' = ReturnValue(state)
    /\ pc' = "returned"
    /\ UNCHANGED <<args, state, trace, calls, backendRaised, chats, active_chat, ragvars, demo>>

\* interactive_mode, the call returned: the response is printed, the
\* AgentState is discarded and the loop waits for the next query (an exception
\* of the call leaves the loop: no call follows pc = "raised")
NextCall ==
    /\ pc = "returned"
    /\ pc' = "idle"
    /\ args' = NoArgs
    /\ state' = initial_state("", NoneArg, NoneArg)
    /\ trace' = << >>
    /\ calls' = << >>
    /\ backendRaised' = FALSE
    /\ result' = PyNone
    /\ UNCHANGED <<chats, active_chat, ragvars, demo>>

-----------------------------------------------------------------------------
(* The other sessions of the process. The front end runs the script of every *)
(* browser session in a thread of its own; each constructs an orchestrator,  *)
(* whose agents call get_rag_system and later retrieve, as this session's    *)
(* do. Their orchestrators, AgentStates and histories are their own objects. *)
(* Of what their threads do, this session can see what they write to the     *)
(* objects it shares with them: the global _rag_instance, self.embeddings    *)
(* and self.vectorstore of an instance its agents hold, and the index        *)
(* directory. Each such write is a step here; what the other threads read    *)
(* and compute is not. A thread performs a write when it is scheduled, after *)
(* tests it passed at some earlier time, and what it tested may have changed *)
(* since: a write is possible whenever some earlier state of the process let *)
(* a thread pass the tests that lead to it. Every instance starts with no    *)
(* embeddings and no index, and embeddings, index and index directory, once  *)
(* there, stay. A write that leaves the shared objects as they are is no     *)
(* step. Of an instance that no agent of this session holds, instances keeps *)
(* what the constructor set: what other sessions write to it, this session   *)
(* sees only once one of its agents holds it, and the writing thread may as  *)
(* well be scheduled then.                                                   *)

\* the instances the agents of this session's orchestrator hold
HeldByCaller == {threads[Caller].rag[a] : a \in 1..Len(NotStarted.rag)} \ {0}

\* get_rag_system in another session, "_rag_instance = GuitarKnowledgeRAG()":
\* the session found the global None before any instance was bound to it
OtherSessionCreatesInstance ==
    /\ Len(instances) < MaxInstances
    /\ instances' = Append(instances, GuitarKnowledgeRAG(catalog))
    /\ _rag_instance' = Len(instances) + 1
    /\ UNCHANGED <<catalog, index_on_disk, threads, orchestrator_vars, demo>>

\* _get_embeddings in another session, "self.embeddings =
\* HuggingFaceEmbeddings(...)": its _create_vectorstore found the index
\* directory, or documents to build from
OtherSessionLoadsEmbeddings ==
    /\ \E i \in HeldByCaller :
          /\ ~instances[i].embeddings
          /\ index_on_disk \/ ~NoDocuments(instances[i].documents)
          /\ instances' = [instances EXCEPT ![i] = [@ EXCEPT !.embeddings = TRUE]]
    /\ UNCHANGED <<catalog, index_on_disk, _rag_instance, threads, orchestrator_vars, demo>>

\* _create_vectorstore in another session, "self.vectorstore =
\* FAISS.load_local(...)": it found the index directory and got embeddings
OtherSessionLoadsIndex ==
    /\ index_on_disk
    /\ \E i \in HeldByCaller :
          /\ instances[i].embeddings
          /\ instances[i].vectorstore # Index(DiskTexts)
          /\ instances' = [instances EXCEPT ![i] = [@ EXCEPT !.vectorstore = Index(DiskTexts)]]
    /\ UNCHANGED <<catalog, index_on_disk, _rag_instance, threads, orchestrator_vars, demo>>

\* _create_vectorstore in another session, "self.vectorstore =
\* FAISS.from_documents(chunks, embeddings)": it has documents and got
\* embeddings
OtherSessionBuildsIndex ==
    /\ \E i \in HeldByCaller :
          /\ ~NoDocuments(instances[i].documents)
          /\ instances[i].embeddings
          /\ instances[i].vectorstore # Index(instances[i].documents.v)
          /\ instances' = [instances EXCEPT ![i] =
                               [@ EXCEPT !.vectorstore = Index(instances[i].documents.v)]]
    /\ UNCHANGED <<catalog, index_on_disk, _rag_instance, threads, orchestrator_vars, demo>>

\* _create_vectorstore in another session, os.makedirs and
\* self.vectorstore.save_local(...), after it built the index of its instance
\* from the documents the catalog gave it: the index directory is there,
\* whether the save completes or raises having created it
OtherSessionSavesIndex ==
    /\ ~index_on_disk
    /\ instances # << >>
    /\ ~NoDocuments(catalog)
    /\ index_on_disk' = TRUE
    /\ UNCHANGED <<catalog, _rag_instance, instances, threads, orchestrator_vars, demo>>

Next ==
    \/ \E t \in {Caller} : ConstructOrchestrator(t)
    \/ \E t \in {Caller} : GetRagSystemTest(t)
    \/ \E t \in {Caller} : GetRagSystemCreate(t)
    \/ \E t \in {Caller} : GetRagSystemReturn(t)
    \/ StartInvocation
    \/ NextCall
    \/ ParseIntent
    \/ AgentRetrieveTest
    \/ AgentRetrieveStep
    \/ RunInformationAgent
    \/ RunRecommendationAgent
    \/ RunNegotiationAgent
    \/ SynthesizeResponse
    \/ Return
    \/ OtherSessionCreatesInstance
    \/ OtherSessionLoadsEmbeddings
    \/ OtherSessionLoadsIndex
    \/ OtherSessionBuildsIndex
    \/ OtherSessionSavesIndex

Spec == Init /\ [][Next]_vars

-----------------------------------------------------------------------------
(* The synthesizer as a function of the AgentState: SpecSynth starts with   *)
(* _synthesize_response about to run on each AgentState of a bounded set,   *)
(* the ones no workflow run produces included (a result slot filled for a   *)
(* responder that is not active).                                           *)

SynthActiveLists ==
    { << >>, <<"information">>, <<"recommendation">>, <<"negotiation">>,
      <<"information", "recommendation">>, <<"information", "negotiation">>,
      <<"recommendation", "negotiation">>,
      <<"information", "recommendation", "negotiation">> }

SynthSlots(agent_name) ==
    {<< >>} \cup {format_agent_response(agent_name, c, << >>, 0) : c \in Contents}

InitSynth ==
    /\ pc = "synthesize_response"
    /\ args = NoArgs
    /\ \E active \in SynthActiveLists,
          info \in SynthSlots("Information Agent"),
          rec \in SynthSlots("Recommendation Agent"),
          neg \in SynthSlots("Price Negotiator Agent") :
          state = [initial_state("", NoneArg, NoneArg) EXCEPT
                      !.active_agents = active,
                      !.information_response = info,
                      !.recommendation_response = rec,
                      !.negotiation_response = neg]
    /\ trace = << >>
    /\ calls = << >>
    /\ backendRaised = FALSE
    /\ result = PyNone
    /\ chats = << << >> >>
    /\ active_chat = 1
    /\ OrchestratorConstructed(ShippedCatalog, FALSE)
    /\ demo = NoDemo

\* _synthesize_response runs, and process_customer_query returns
NextSynth ==
    \/ SynthesizeResponse
    \/ Return

SpecSynth == InitSynth /\ [][NextSynth]_vars

-----------------------------------------------------------------------------
(* The Streamlit front end (ui/streamlit_app.py): one chat, the sidebar, and *)
(* the handler of a submitted query, which calls process_customer_query.     *)

\* what render_sidebar_preferences returns: what a user selected
SidebarSelections ==
    { [budget               |-> "Premium ($1500-5000)",
       skill_level          |-> "Advanced",
       music_style          |-> <<"Blues", "Jazz">>,
       guitar_type          |-> "Electric Guitars",
       other_considerations |-> "small hands"] }

\* what a user types into the chat input (the handler ignores an empty input)
ChatQueries == {"Price ", "buy "}

\* the number of user turns of all chats of the session: the queries
\* submitted so far
RECURSIVE QueryTurns(_)
QueryTurns(cs) ==
    IF cs = << >> THEN 0
    ELSE Cardinality({i \in 1..Len(Head(cs)) : Head(cs)[i].role = "user"})
         + QueryTurns(Tail(cs))

\* a front end that passes the whole chat, the submitted query included
history_to_pass_WithQuery(msgs) == msgs

\* history_to_pass = messages[:-1]
history_to_pass(msgs) == DropLast(msgs)

\* the run of the script is over: its orchestrator is dropped
RunOver == [threads EXCEPT ![Caller] = NotStarted]

\* main, a run of the script begins (the page is loaded, or the user has done
\* something): GuitarShoppingOrchestrator() is constructed anew
ScriptRun ==
    /\ pc = "idle"
    /\ threads[Caller].pc \in {"start", "ready"}
    /\ threads' = [threads EXCEPT ![Caller] = construct_orchestrator(NotStarted)]
    /\ UNCHANGED <<catalog, index_on_disk, _rag_instance, instances, orchestrator_vars, demo>>

\* render_chat_interface, a query was submitted: the user turn is appended to
\* the chat and process_customer_query is called with the chat without that
\* turn and with the sidebar's selection (st.session_state.sidebar_prefs, set
\* by main on every run)
SubmitChatQuery ==
    /\ pc = "idle"
    /\ threads[Caller].pc = "ready"
    /\ 2 * QueryTurns(chats) + 2 <= MaxMessages
    /\ \E user_query \in ChatQueries, sidebar_prefs \in SidebarSelections :
          LET appended == Append(messages, [role |-> "user", content |-> user_query])
              history  == ListArg(history_to_pass(appended))
              preferences == DictArg(sidebar_prefs)
          IN /\ chats' = [chats EXCEPT ![active_chat] = appended]
             /\ args' = [query |-> user_query, history |-> history,
                         preferences |-> preferences]
             /\ state' = initial_state(user_query, history, preferences)
    /\ pc' = "parse_intent"
    /\ trace' = << >>
    /\ calls' = << >>
    /\ backendRaised' = FALSE
    /\ result' = PyNone
    /\ UNCHANGED <<active_chat, ragvars, demo>>

\* render_chat_interface, the call returned: the final response is shown and
\* appended to the chat as the assistant's message
DisplayResponse ==
    /\ pc = "returned"
    /\ chats' = [chats EXCEPT ![active_chat] =
                     Append(@, [role |-> "assistant", content |-> result.final_response])]
    /\ pc' = "idle"
    /\ args' = NoArgs
    /\ state' = initial_state("", NoneArg, NoneArg)
    /\ trace' = << >>
    /\ calls' = << >>
    /\ backendRaised' = FALSE
    /\ result' = PyNone
    /\ threads' = RunOver
    /\ UNCHANGED <<active_chat, catalog, index_on_disk, _rag_instance, instances, demo>>

\* main, the call raised: the error is shown; the chat keeps the user turn
ShowError ==
    /\ pc = "raised"
    /\ pc' = "idle"
    /\ args' = NoArgs
    /\ state' = initial_state("", NoneArg, NoneArg)
    /\ trace' = << >>
    /\ calls' = << >>
    /\ backendRaised' = FALSE
    /\ result' = PyNone
    /\ threads' = RunOver
    /\ UNCHANGED <<chats, active_chat, catalog, index_on_disk, _rag_instance, instances, demo>>

\* the New Chat button: the empty chat "Chat <len(chats) + 1>" is added and
\* becomes the active one
NewChat ==
    /\ pc = "idle"
    /\ threads[Caller].pc = "ready"
    /\ Len(chats) < MaxChats
    /\ chats' = Append(chats, << >>)
    /\ active_chat' = Len(chats) + 1
    /\ threads' = RunOver
    /\ UNCHANGED <<pc, args, state, trace, calls, backendRaised, result, catalog,
                   index_on_disk, _rag_instance, instances, demo>>

\* a conversation button of the sidebar (every chat has one, the active chat
\* too): that chat becomes the active one, or stays it
SwitchChat ==
    /\ pc = "idle"
    /\ threads[Caller].pc = "ready"
    /\ \E chat_name \in 1..Len(chats) : active_chat' = chat_name
    /\ threads' = RunOver
    /\ UNCHANGED <<pc, args, state, trace, calls, backendRaised, result, chats, catalog,
                   index_on_disk, _rag_instance, instances, demo>>

NextUI ==
    \/ ScriptRun
    \/ \E t \in {Caller} : GetRagSystemTest(t)
    \/ \E t \in {Caller} : GetRagSystemCreate(t)
    \/ \E t \in {Caller} : GetRagSystemReturn(t)
    \/ SubmitChatQuery
    \/ DisplayResponse
    \/ ShowError
    \/ NewChat
    \/ SwitchChat
    \/ ParseIntent
    \/ AgentRetrieveTest
    \/ AgentRetrieveStep
    \/ RunInformationAgent
    \/ RunRecommendationAgent
    \/ RunNegotiationAgent
    \/ SynthesizeResponse
    \/ Return
    \/ OtherSessionCreatesInstance
    \/ OtherSessionLoadsEmbeddings
    \/ OtherSessionLoadsIndex
    \/ OtherSessionBuildsIndex
    \/ OtherSessionSavesIndex

SpecUI == Init /\ [][NextUI]_vars

-----------------------------------------------------------------------------
(* The retrieval system in use: threads (sessions constructing their agents, *)
(* agents answering) call get_rag_system and retrieve_with_context; a step   *)
(* of one thread may fall between two steps of another.                      *)

\* one of the session's agents calls self.rag.retrieve_with_context(query, k),
\* which calls retrieve
RetrieveTest(t) ==
    /\ \E agent \in 1..Len(threads[t].rag) : retrieve_test(t, threads[t].rag[agent], TRUE)
    /\ UNCHANGED <<orchestrator_vars, demo>>

\* the retrieve call goes on by one step
RetrieveStep(t) ==
    /\ retrieve_step(t, TRUE)
    /\ UNCHANGED <<orchestrator_vars, demo>>

\* the caller has the context: the thread is ready for its next call
RetrieveDone(t) ==
    /\ threads[t].pc = "returned"
    /\ threads' = [threads EXCEPT ![t] = CallOver(@)]
    /\ UNCHANGED <<catalog, index_on_disk, _rag_instance, instances, orchestrator_vars, demo>>

NextRag ==
    \/ \E t \in Threads : ConstructOrchestrator(t)
    \/ \E t \in Threads : GetRagSystemTest(t)
    \/ \E t \in Threads : GetRagSystemCreate(t)
    \/ \E t \in Threads : GetRagSystemReturn(t)
    \/ \E t \in Threads : RetrieveTest(t)
    \/ \E t \in Threads : RetrieveStep(t)
    \/ \E t \in Threads : RetrieveDone(t)

\* what the threads write to the shared objects, step by step, is what
\* the specifications of the orchestrator let other sessions write: under
\* SpecRag every step that changes the global, an instance or the index
\* directory is one of those writes, made to some instance
ThreadsWriteAsOtherSessions ==
    [][<<_rag_instance, instances, index_on_disk>>' # <<_rag_instance, instances, index_on_disk>> =>
          \/ /\ Len(instances) < MaxInstances
             /\ instances' = Append(instances, GuitarKnowledgeRAG(catalog))
             /\ _rag_instance' = Len(instances) + 1
             /\ UNCHANGED index_on_disk
          \/ /\ UNCHANGED <<_rag_instance, index_on_disk>>
             /\ \E i \in 1..Len(instances) :
                   \/ /\ index_on_disk \/ ~NoDocuments(instances[i].documents)
                      /\ instances' = [instances EXCEPT ![i] = [@ EXCEPT !.embeddings = TRUE]]
                   \/ /\ index_on_disk /\ instances[i].embeddings
                      /\ instances' = [instances EXCEPT ![i] =
                                           [@ EXCEPT !.vectorstore = Index(DiskTexts)]]
                   \/ /\ ~NoDocuments(instances[i].documents) /\ instances[i].embeddings
                      /\ instances' = [instances EXCEPT ![i] =
                                           [@ EXCEPT !.vectorstore = Index(instances[i].documents.v)]]
          \/ /\ instances # << >> /\ ~NoDocuments(catalog)
             /\ index_on_disk' = TRUE
             /\ UNCHANGED <<_rag_instance, instances>>]_vars

\* the process starts: the module is imported, no orchestrator call is under way
InitRag ==
    /\ pc = "idle"
    /\ args = NoArgs
    /\ state = initial_state("", NoneArg, NoneArg)
    /\ trace = << >>
    /\ calls = << >>
    /\ backendRaised = FALSE
    /\ result = PyNone
    /\ chats = << << >> >>
    /\ active_chat = 1
    /\ \E file \in Catalogs, disk \in BOOLEAN : RagImported(file, disk)
    /\ demo = NoDemo

SpecRag == InitRag /\ [][NextRag]_vars

-----------------------------------------------------------------------------
(* quickstart.py: the menu of the script and run_demo_queries *)

\* the demo_queries list of run_demo_queries
demo_queries ==
    << [query       |-> "I'm a beginner wanting to learn acoustic guitar. What's a good starting option?",
        preferences |-> [skill_level |-> "Beginner",
                         guitar_type |-> "Acoustic Guitars",
                         music_style |-> <<"Folk", "Strumming">>,
                         budget      |-> "Budget ($0-500)"]],
       [query       |-> "What's the difference between a Stratocaster and a Telecaster?",
        preferences |-> [skill_level |-> "Intermediate",
                         guitar_type |-> "Electric Guitars"]],
       [query       |-> "I have $2000 to spend on a professional quality electric guitar for rock music. What do you recommend?",
        preferences |-> [skill_level |-> "Professional",
                         music_style |-> <<"Rock">>,
                         guitar_type |-> "Electric Guitars",
                         budget      |-> "Premium ($1500-5000)"]],
       [query       |-> "Can you negotiate a better price on a Les Paul-style guitar?",
        preferences |-> [budget |-> "Mid-Range ($500-1500)"]] >>

\* a demo without a "preferences" key, for the default of demo.get
DemoWithoutPreferences == [query |-> "Tell me about Fender."]

\* the demo lists the loop is run over: the non-empty sub-lists of the
\* script's list followed by the demo without preferences
DemoLists ==
    LET all == Append(demo_queries, DemoWithoutPreferences)
    IN {SelectSeq([i \in 1..Len(all) |-> [i |-> i, demo |-> all[i]]],
                  LAMBDA e : e.i \in S) : S \in (SUBSET (1..Len(all))) \ {{}}}

\* print(result["final_response"][:1000])
ShownLength == 1000

\* what the user types at "Select option (1 or 2): "
MenuChoices == {"1", "2", "3"}

\* demo.get("preferences", {})
demo_get_preferences(d) ==
    IF "preferences" \in DOMAIN d THEN DictArg(d.preferences) ELSE DictArg(<< >>)

\* orchestrator.process_customer_query(demo["query"], demo.get("preferences", {})):
\* two positional arguments bind to the parameters query and history, and
\* preferences keeps its default None
demo_call(d) ==
    [query |-> d.query, history |-> demo_get_preferences(d), preferences |-> NoneArg]

\* history + [{"role": "user", "content": query}] raises TypeError unless
\* history is a list (None was replaced by [] before)
concat_raises(history) == history.kind = "dict"

\* the script starts and shows its menu
QuickstartStarted(list) ==
    demo = [pc |-> "menu", demo_queries |-> list, idx |-> 1, printed |-> << >>]

\* choice = input(...).strip(), then the branch taken: "1" calls
\* run_demo_queries, which begins with the orchestrator's constructor (its
\* agents obtain the retrieval instance from get_rag_system, step by step),
\* "2" displays the system information, anything else prints "Invalid option"
ChooseOption ==
    /\ demo.pc = "menu"
    /\ \E choice \in MenuChoices :
          /\ demo' = [demo EXCEPT !.pc = CASE choice = "1" -> "loop"
                                           [] choice = "2" -> "system_info"
                                           [] OTHER        -> "invalid_option"]
          /\ threads' = IF choice = "1"
                        THEN [threads EXCEPT ![Caller] = construct_orchestrator(@)]
                        ELSE threads
    /\ UNCHANGED <<orchestrator_vars, catalog, index_on_disk, _rag_instance, instances>>

\* one pass of the loop up to the call: process_customer_query is called and
\* either raises at the concatenation or builds its initial state and
\* invokes the graph
RunDemoQuery ==
    /\ demo.pc = "loop"
    /\ threads[Caller].pc = "ready"
    /\ pc = "idle"
    /\ demo.idx <= Len(demo.demo_queries)
    /\ LET a == demo_call(demo.demo_queries[demo.idx].demo)
       IN /\ args' = a
          /\ IF concat_raises(a.history)
             THEN /\ pc' = "raised"
                  /\ UNCHANGED state
             ELSE /\ pc' = "parse_intent"
                  /\ state' = initial_state(a.query, a.history, a.preferences)
    /\ trace' = << >>
    /\ calls' = << >>
    /\ backendRaised' = FALSE
    /\ result' = PyNone
    /\ demo' = [demo EXCEPT !.pc = "calling"]
    /\ UNCHANGED <<chats, active_chat, ragvars>>

\* the call is over: result["final_response"][:1000] is printed, the result
\* is dropped at the next pass and the loop goes on; or the call's exception
\* leaves run_demo_queries and the except clause of the script prints the
\* error
DemoCallEnds ==
    /\ demo.pc = "calling"
    /\ pc \in {"returned", "raised"}
    /\ IF pc = "returned"
       THEN /\ demo' = [demo EXCEPT !.pc = "loop", !.idx = @ + 1,
                                    !.printed =
                                        LET r == result.final_response
                                            n == IF Len(r) < ShownLength THEN Len(r)
                                                 ELSE ShownLength
                                        IN Append(@, SubSeq(r, 1, n))]
            /\ pc' = "idle"
       ELSE /\ demo' = [demo EXCEPT !.pc = "error"]
            /\ UNCHANGED pc
    /\ UNCHANGED <<args, state, trace, calls, backendRaised, result, chats, active_chat, ragvars>>

NextDemo ==
    \/ ChooseOption
    \/ \E t \in {Caller} : GetRagSystemTest(t)
    \/ \E t \in {Caller} : GetRagSystemCreate(t)
    \/ \E t \in {Caller} : GetRagSystemReturn(t)
    \/ RunDemoQuery
    \/ DemoCallEnds

\* python quickstart.py
InitDemo ==
    /\ pc = "idle"
    /\ args = NoArgs
    /\ state = initial_state("", NoneArg, NoneArg)
    /\ trace = << >>
    /\ calls = << >>
    /\ backendRaised = FALSE
    /\ result = PyNone
    /\ chats = << << >> >>
    /\ active_chat = 1
    /\ \E file \in Catalogs, disk \in BOOLEAN : RagImported(file, disk)
    /\ \E list \in DemoLists : QuickstartStarted(list)

SpecDemo == InitDemo /\ [][NextDemo]_vars

-----------------------------------------------------------------------------
(* Vocabulary of the properties *)

Range(seq) == {seq[i] : i \in 1..Len(seq)}

\* the positions at which sub occurs in s
Occurrences(sub, s) ==
    {i \in 1..(Len(s) - Len(sub) + 1) : SubSeq(s, i, i + Len(sub) - 1) = sub}

\* the intent has been parsed in the current call
Parsed == pc \notin {"idle", "parse_intent"}

\* the graph ran to its end in the current call
Synthesized == pc \in {"END", "returned"}

Responders == <<"information", "recommendation", "negotiation">>

NodeOf(r) ==
    CASE r = "information"    -> "information_node"
      [] r = "recommendation" -> "recommendation_node"
      [] r = "negotiation"    -> "negotiation_node"

AgentNameOf(r) ==
    CASE r = "information"    -> "Information Agent"
      [] r = "recommendation" -> "Recommendation Agent"
      [] r = "negotiation"    -> "Price Negotiator Agent"

HeadingOf(r) ==
    CASE r = "information"    -> "### [books] Guitar Info\n"
      [] r = "recommendation" -> "### [sparkles] Recommendations\n"
      [] r = "negotiation"    -> "### [money] Pricing & Deals\n"

SlotOf(st, r) ==
    CASE r = "information"    -> st.information_response
      [] r = "recommendation" -> st.recommendation_response
      [] r = "negotiation"    -> st.negotiation_response

\* the responder's node ran to its end in the current call
Ran(r) == InList(NodeOf(r), trace) /\ SlotOf(state, r) # << >>

\* the responder's slot holds non-empty content
HasContent(st, r) == SlotOf(st, r) # << >> /\ SlotOf(st, r).content # ""

-----------------------------------------------------------------------------
(* C1 *)

\* the table as the specification states it
TableEntry(intent) ==
    CASE intent = "information_request"    -> {"information"}
      [] intent = "recommendation_request" -> {"information", "recommendation"}
      [] intent = "price_inquiry"          -> {"information", "negotiation"}
      [] intent = "comparison_request"     -> {"information", "recommendation"}
      [] intent = "general_inquiry"        -> {"information"}

\* C1: once the intent-parsing step has run, the intent is one of the five
\* labels and the active agents are exactly the table's entry for it, so
\* "information" is always among them
C1_ActiveSetIsTableEntry ==
    Parsed =>
        /\ state.intent \in Intents
        /\ Range(state.active_agents) = TableEntry(state.intent)
        /\ "information" \in Range(state.active_agents)

C1_Witness ==
    /\ pc = "information_node"
    /\ state.intent = "price_inquiry"
    /\ state.active_agents = <<"information", "negotiation">>

-----------------------------------------------------------------------------
(* C2 *)

\* the nodes a complete run executes for the active list, in order
ExpectedTrace(active) ==
    <<"parse_intent", "information_node">>
    \o (IF InList("recommendation", active) THEN <<"recommendation_node">> ELSE << >>)
    \o (IF InList("negotiation", active) THEN <<"negotiation_node">> ELSE << >>)
    \o <<"synthesize_response">>

IsPrefix(a, b) == Len(a) <= Len(b) /\ SubSeq(b, 1, Len(a)) = a

\* C2: the nodes executed so far are always a prefix of parse_intent,
\* information_node, recommendation_node iff active, negotiation_node iff
\* active, synthesize_response; a run that reaches the end executed exactly
\* that list; and the agents called are those of the responder nodes executed,
\* one call per node
C2_RespondersRunInOrder ==
    Parsed =>
        /\ IsPrefix(trace, ExpectedTrace(state.active_agents))
        /\ Synthesized => trace = ExpectedTrace(state.active_agents)
        /\ [i \in 1..Len(calls) |-> NodeOf(calls[i].agent)]
             = SelectSeq(trace, LAMBDA n : n \in {"information_node", "recommendation_node",
                                                   "negotiation_node"})

C2_Witness ==
    /\ pc = "returned"
    /\ trace = <<"parse_intent", "information_node", "recommendation_node",
                 "synthesize_response">>
    /\ Len(calls) = 2

-----------------------------------------------------------------------------
(* C3 *)

\* the responder has a section in the text: its heading, followed by its content
HasSection(r, text) == Occurrences(HeadingOf(r), text) # {}

\* C3: when the synthesizer has run, in its text a responder's heading occurs once, followed by
\* the content of its slot, when the responder is active and its slot holds
\* non-empty content, and does not occur otherwise (so never for a responder
\* that is not active, whatever its slot holds); the sections stand in the
\* order information, recommendation, negotiation
C3_SectionsFollowActiveSet ==
    Synthesized =>
        LET text == state.final_response
            occ  == [i \in 1..3 |-> Occurrences(HeadingOf(Responders[i]), text)]
        IN /\ \A i \in 1..3 :
                LET r == Responders[i]
                IN IF InList(r, state.active_agents) /\ HasContent(state, r)
                   THEN /\ Cardinality(occ[i]) = 1
                        /\ Occurrences(HeadingOf(r) \o SlotOf(state, r).content, text)
                             = occ[i]
                   ELSE occ[i] = {}
           /\ \A i, j \in 1..3 :
                i < j => \A a \in occ[i], b \in occ[j] : a < b

\* a stale recommendation result, recommendation not active: no section for it
C3_Witness ==
    /\ pc = "END"
    /\ trace = <<"synthesize_response">>
    /\ state.active_agents = <<"information", "negotiation">>
    /\ HasContent(state, "information")
    /\ HasContent(state, "recommendation")
    /\ HasContent(state, "negotiation")
    /\ ~HasSection("recommendation", state.final_response)
    /\ HasSection("information", state.final_response)

-----------------------------------------------------------------------------
(* C4 *)

\* the history the caller passed (None stands for the empty list)
InputHistory == IF args.history.kind = "none" THEN << >> ELSE args.history.v

UserTurn == [role |-> "user", content |-> args.query]

\* the turn of a responder: its agent's name and the content of its result
AgentTurn(r) ==
    [role |-> "agent", agent |-> AgentNameOf(r), content |-> SlotOf(state, r).content]

\* one agent turn per responder that ran, in the order information,
\* recommendation, negotiation
AgentTurns ==
    (IF Ran("information") THEN <<AgentTurn("information")>> ELSE << >>)
    \o (IF Ran("recommendation") THEN <<AgentTurn("recommendation")>> ELSE << >>)
    \o (IF Ran("negotiation") THEN <<AgentTurn("negotiation")>> ELSE << >>)

\* the system turn of the intent-parsing step
IntentTurn ==
    [role    |-> "system",
     content |-> "Detected intent: " \o result.metadata.intent \o " -> activating: "
                 \o str_join(", ", result.metadata.active_agents)]

\* C4 as stated: the returned history is the input history, one user turn with
\* the query and one agent turn per responder that ran, and nothing else
C4_Original_HistoryRoundTrip ==
    pc = "returned" =>
        result.conversation_history = InputHistory \o <<UserTurn>> \o AgentTurns

\* C4 amended: the returned history is the input history, one user turn with
\* the query, one system turn of the intent-parsing step (the detected intent
\* and the activated agents), and one agent turn per responder that ran, in
\* execution order, and nothing else
C4_HistoryRoundTrip ==
    pc = "returned" =>
        result.conversation_history
            = InputHistory \o <<UserTurn>> \o <<IntentTurn>> \o AgentTurns

C4_Witness ==
    /\ pc = "returned"
    /\ Len(InputHistory) = 1
    /\ Ran("negotiation")
    /\ Len(result.conversation_history) = Len(InputHistory) + 4
    /\ result.conversation_history[Len(InputHistory) + 2].role = "system"

-----------------------------------------------------------------------------
(* C5 *)

\* the result of responder r, if it ran in this call and produced content
InvolvedIfRan(r) ==
    IF Ran(r) /\ SlotOf(state, r).content # "" THEN <<SlotOf(state, r)>> ELSE << >>

\* C5: agents_involved holds the results of the responders that ran in this
\* call with non-empty content, in the order information, recommendation,
\* negotiation, and nothing else
C5_AgentsInvolved ==
    pc = "returned" =>
        /\ result.agents_involved
             = InvolvedIfRan("information") \o InvolvedIfRan("recommendation")
               \o InvolvedIfRan("negotiation")
        /\ \A i \in 1..Len(result.agents_involved) :
              /\ result.agents_involved[i].content # ""
              /\ \E k \in 1..3 :
                    /\ result.agents_involved[i].agent = AgentNameOf(Responders[k])
                    /\ InList(NodeOf(Responders[k]), trace)

\* the information responder ran with empty content, the negotiator with text
C5_Witness ==
    /\ pc = "returned"
    /\ Ran("information")
    /\ state.information_response.content = ""
    /\ Ran("negotiation")
    /\ Len(result.agents_involved) = 1
    /\ result.agents_involved[1].agent = "Price Negotiator Agent"

-----------------------------------------------------------------------------
(* C6 *)

\* every active responder returned empty content
AllActiveEmpty ==
    \A i \in 1..3 :
        InList(Responders[i], state.active_agents) => ~HasContent(state, Responders[i])

\* C6: when every active responder returned empty content the call returns,
\* and the final response is the fallback sentence followed by the closing
\* lines, with no responder section
C6_FallbackWhenAllEmpty ==
    (Synthesized /\ AllActiveEmpty) =>
        /\ state.final_response =
             "I'm not sure how to help with that - could you rephrase?"
             \o "\n\n---\n*Feel free to ask me more - I'm here to help you find your perfect guitar!* [guitar]\n"
        /\ \A i \in 1..3 : ~HasSection(Responders[i], state.final_response)
        /\ pc = "returned" =>
              /\ result.status = "success"
              /\ result.final_response = state.final_response

C6_Witness ==
    /\ pc = "returned"
    /\ Len(calls) = 2
    /\ AllActiveEmpty
    /\ result.agents_involved = << >>

-----------------------------------------------------------------------------
(* C7 *)

\* C7: if the backend raised during a responder step, the call has raised at
\* that step: nothing is returned, nothing is synthesized and the responder
\* that raised is the last one called; a call that returns returns the
\* complete result and no backend call of it raised
C7_AllOrNothing ==
    /\ backendRaised =>
          /\ pc = "raised"
          /\ result = PyNone
          /\ state.final_response = ""
          /\ ~state.workflow_complete
          /\ ~InList("synthesize_response", trace)
          /\ NodeOf(calls[Len(calls)].agent) = trace[Len(trace)]
    /\ pc = "raised" => backendRaised
    /\ pc = "returned" =>
          /\ ~backendRaised
          /\ DOMAIN result = {"status", "final_response", "conversation_history",
                              "agents_involved", "metadata"}
          /\ DOMAIN result.metadata = {"intent", "active_agents", "workflow_complete",
                                       "final_stage"}
          /\ result.status = "success"
          /\ result.metadata.workflow_complete

\* the second responder of the call raised
C7_Witness ==
    /\ pc = "raised"
    /\ backendRaised
    /\ Len(calls) = 2
    /\ result = PyNone

-----------------------------------------------------------------------------
(* C8 *)

JazzQuery == "Can you recommend a guitar for jazz on a budget?"

\* an agent was called in the current call
Called(r) == \E i \in 1..Len(calls) : calls[i].agent = r

\* C8: for the jazz query the intent is recommendation_request, the active
\* set is {information, recommendation} and the negotiation responder is
\* never invoked
C8_JazzOnABudget ==
    (Parsed /\ args.query = JazzQuery) =>
        /\ state.intent = "recommendation_request"
        /\ Range(state.active_agents) = {"information", "recommendation"}
        /\ ~Called("negotiation")

\* what the code does: the jazz query was classified as a price_inquiry and
\* the call returned after the negotiation responder had been invoked
C8_Witness ==
    /\ pc = "returned"
    /\ args.query = JazzQuery
    /\ Called("negotiation")
    /\ result.metadata.intent = "price_inquiry"

-----------------------------------------------------------------------------
(* C9 *)

\* the scores tables of the enumerated queries, computed once
ScoresOfQueries == [q \in Queries |-> Scores(str_lower(q))]

\* the scores of the current call's query
QueryScores ==
    IF args.query \in Queries THEN ScoresOfQueries[args.query]
    ELSE Scores(str_lower(args.query))

\* the intents that share the highest score of the scores table sc
TopScored(sc) == {k \in DOMAIN sc : \A j \in DOMAIN sc : sc[j] <= sc[k]}

\* two or more intents share the highest score, and it is positive
TiedAtTop(sc) == Cardinality(TopScored(sc)) >= 2 /\ \A k \in TopScored(sc) : sc[k] > 0

\* the first element of order that is in the set
FirstIn(order, set) ==
    order[CHOOSE i \in 1..Len(order) :
             order[i] \in set /\ \A j \in 1..(i - 1) : order[j] \notin set]

\* C9: from the intent-parsing step on, a tie at the highest positive score
\* has gone to the intent declared first among information_request,
\* recommendation_request, price_inquiry, comparison_request
C9_TieBreak ==
    Parsed =>
        LET sc == QueryScores
        IN TiedAtTop(sc) =>
              state.intent = FirstIn(<<"information_request", "recommendation_request",
                                       "price_inquiry", "comparison_request">>,
                                     TopScored(sc))

\* what the code does: recommendation_request and price_inquiry tied at the
\* top, and the intent is price_inquiry, which is declared after
\* recommendation_request
C9_Witness ==
    /\ pc = "information_node"
    /\ state.intent = "price_inquiry"
    /\ LET sc == QueryScores
       IN /\ TiedAtTop(sc)
          /\ TopScored(sc) = {"recommendation_request", "price_inquiry"}
          /\ sc["price_inquiry"] = 1

-----------------------------------------------------------------------------
(* C10 *)

NegotiateQuery == "I want to negotiate a discount on a Les Paul"

\* the query hits a keyword of the price list and none of the other lists
OnlyPriceHits ==
    LET sc == QueryScores
    IN /\ sc["price_inquiry"] > 0
       /\ sc["recommendation_request"] = 0
       /\ sc["information_request"] = 0
       /\ sc["comparison_request"] = 0

\* C10: a query whose keyword hits are all in the price list is, from the
\* intent-parsing step on, a price_inquiry with active set {information,
\* negotiation}, and when both responders returned content the returned final
\* response is the information section, then the pricing section, then the
\* closing lines
C10_PriceOnlyQueries ==
    (Parsed /\ OnlyPriceHits) =>
        /\ state.intent = "price_inquiry"
        /\ Range(state.active_agents) = {"information", "negotiation"}
        /\ (pc = "returned" /\ HasContent(state, "information")
                            /\ HasContent(state, "negotiation"))
              => result.final_response
                   = "### [books] Guitar Info\n" \o state.information_response.content
                     \o "\n\n"
                     \o "### [money] Pricing & Deals\n" \o state.negotiation_response.content
                     \o "\n\n---\n*Feel free to ask me more - I'm here to help you find your perfect guitar!* [guitar]\n"

C10_Witness ==
    /\ pc = "returned"
    /\ args.query = NegotiateQuery
    /\ QueryScores["price_inquiry"] = 2
    /\ OnlyPriceHits
    /\ HasSection("information", result.final_response)
    /\ HasSection("negotiation", result.final_response)
    /\ Len(result.agents_involved) = 2

-----------------------------------------------------------------------------
(* C11 *)

\* the keywords of the four lists
AllKeywords == Range(price_kw) \cup Range(rec_kw) \cup Range(info_kw) \cup Range(comp_kw)

\* no keyword of any list occurs in the lower-cased query of the current call
NoKeywordOccurs ==
    LET q == str_lower(args.query)
    IN \A kw \in AllKeywords : ~str_in(kw, q)

\* C11: from the intent-parsing step on, a query in which no keyword of the
\* four lists occurs (the empty query included) has intent general_inquiry
\* and active set {information}; and the intent is general_inquiry only when
\* all four scores are 0
C11_GeneralInquiryIffNoHits ==
    Parsed =>
        /\ NoKeywordOccurs =>
              /\ state.intent = "general_inquiry"
              /\ Range(state.active_agents) = {"information"}
        /\ state.intent = "general_inquiry" =>
              LET sc == QueryScores
              IN \A k \in DOMAIN sc : sc[k] = 0

\* a non-empty query without a hit ("sh") went through the
\* whole workflow as a general_inquiry
C11_Witness ==
    /\ pc = "returned"
    /\ args.query # ""
    /\ NoKeywordOccurs
    /\ result.metadata.intent = "general_inquiry"
    /\ result.metadata.active_agents = <<"information">>

-----------------------------------------------------------------------------
(* C13 *)

\* no node was executed twice in the current call
NoNodeTwice == \A i, j \in 1..Len(trace) : trace[i] = trace[j] => i = j

\* what C13 says of every state: at most four nodes ran (the longest path of
\* the graph is parse_intent, information_node, one of recommendation_node
\* and negotiation_node, synthesize_response), none twice; the
\* completion flag is false before synthesize_response has run; and a call
\* that returned reports workflow_complete true and final_stage 'complete'
C13_Steps ==
    /\ NoNodeTwice
    /\ Len(trace) <= 4
    /\ ~InList("synthesize_response", trace) => state.workflow_complete = FALSE
    /\ pc = "returned" =>
          /\ result.metadata.workflow_complete = TRUE
          /\ result.metadata.final_stage = "complete"

\* a call is under way: graph.invoke is between two nodes, or it has
\* returned and process_customer_query is about to build its result
InFlight ==
    pc \in {"parse_intent", "information_node", "recommendation_node",
            "negotiation_node", "synthesize_response", "END"}

\* the steps a responder node still takes at most: those of its agent's
\* retrieve (the first test, the test of _create_vectorstore, the look for
\* the index directory, the embeddings tested and loaded and the index
\* loaded from disk, the embeddings tested and loaded again and the index
\* built and saved, the second test, the search), and the reply of the
\* backend with the node's update of the state
AgentStepsLeft ==
    LET me == threads[Caller]
    IN CASE me.pc = "ready"                                    -> 13
         [] me.pc = "_create_vectorstore"                      -> 12
         [] me.pc = "path_exists"                              -> 11
         [] me.pc = "_get_embeddings" /\ me.site = "load"      -> 10
         [] me.pc = "load_embeddings" /\ me.site = "load"      -> 9
         [] me.pc = "load_local"                               -> 8
         [] me.pc = "_get_embeddings" /\ me.site = "build"     -> 7
         [] me.pc = "load_embeddings" /\ me.site = "build"     -> 6
         [] me.pc = "from_documents"                           -> 5
         [] me.pc = "save_local"                               -> 4
         [] me.pc = "second_test"                              -> 3
         [] me.pc = "similarity_search"                        -> 2
         [] OTHER                                              -> 1

\* an upper bound of the number of steps the call still takes
StepsLeft ==
    CASE pc = "parse_intent"        -> 29
      [] pc = "information_node"    -> 15 + AgentStepsLeft
      [] pc = "recommendation_node" -> 2 + AgentStepsLeft
      [] pc = "negotiation_node"    -> 2 + AgentStepsLeft
      [] pc = "synthesize_response" -> 2
      [] pc = "END"                 -> 1
      [] OTHER                      -> 0

\* a step of the call, as opposed to a write of another session
CallStep ==
    \/ orchestrator_vars' # orchestrator_vars
    \/ threads'[Caller] # threads[Caller]

\* C13: every call runs at most four nodes, none twice, with the completion
\* flag false until synthesis, and what it returns has workflow_complete true
\* and final_stage 'complete'; a call under way is always at a node of the
\* graph or at the return, and every step of it lowers the number of steps
\* left, so that it returns, or a responder raises, after a bounded number of
\* steps of its own (four nodes, the steps of the retrieve call in each
\* responder node, the return), whatever other sessions do meanwhile
C13_TerminatesComplete ==
    /\ []C13_Steps
    /\ [](pc \in {"idle", "returned", "raised"} \/ InFlight)
    /\ [][(InFlight /\ CallStep) =>
              (StepsLeft' < StepsLeft /\ (pc' = "raised" => backendRaised'))]_vars

\* a call on the longest path returned, no responder having raised
C13_Witness ==
    /\ pc = "returned"
    /\ ~backendRaised
    /\ trace = <<"parse_intent", "information_node", "negotiation_node",
                 "synthesize_response">>
    /\ result.metadata.workflow_complete = TRUE
    /\ result.metadata.final_stage = "complete"

-----------------------------------------------------------------------------
(* C14 *)

\* the mapping the caller supplied (preferences or {})
SuppliedPreferences ==
    IF args.preferences.kind = "none" THEN << >> ELSE args.preferences.v

\* the values of a mapping
ValuesOf(d) == {d[k] : k \in DOMAIN d}

\* the turns the current call added to the history it was given
AddedTurns ==
    SubSeq(state.conversation_history, Len(InputHistory) + 1,
           Len(state.conversation_history))

\* C14: in every state of a call the preferences of the workflow state are the
\* mapping the caller supplied; the recommendation responder is the only one
\* called with a preferences argument, and it gets that mapping; and no turn
\* the call added to the history has a field other than role, agent and
\* content or a content in which a value of the mapping occurs
C14_PreferencesFrame ==
    /\ state.preferences = SuppliedPreferences
    /\ \A i \in 1..Len(calls) :
          IF calls[i].agent = "recommendation"
          THEN calls[i].preferences = SuppliedPreferences
          ELSE "preferences" \notin DOMAIN calls[i]
    /\ \A i \in 1..Len(AddedTurns) :
          /\ DOMAIN AddedTurns[i] \subseteq {"role", "agent", "content"}
          /\ \A v \in ValuesOf(SuppliedPreferences) :
                Occurrences(v, AddedTurns[i].content) = {}

\* a call with a non-empty mapping returned after the information and the
\* recommendation responder ran, the latter with the mapping
C14_Witness ==
    /\ pc = "returned"
    /\ SuppliedPreferences # << >>
    /\ Len(calls) = 2
    /\ calls[1].agent = "information"
    /\ calls[2].agent = "recommendation"
    /\ calls[2].preferences = SuppliedPreferences
    /\ Len(AddedTurns) = 4

-----------------------------------------------------------------------------
(* C15 *)

\* C15 as stated: no responder is ever called with the mapping the front end
\* collected in the sidebar
C15_SidebarNeverForwarded ==
    \A i \in 1..Len(calls) :
        "preferences" \in DOMAIN calls[i] => calls[i].preferences \notin SidebarSelections

\* what the code does: a query submitted in the chat was classified as a
\* recommendation_request and the recommendation responder was called with
\* the sidebar's selection
C15_Witness ==
    /\ messages # << >>
    /\ state.intent = "recommendation_request"
    /\ \E i \in 1..Len(calls) :
          /\ calls[i].agent = "recommendation"
          /\ calls[i].preferences \in SidebarSelections
          /\ calls[i].preferences = args.preferences.v

-----------------------------------------------------------------------------
(* C16 *)

\* the number of turns of a history whose content is the current query
QueryCount(h) == Cardinality({i \in 1..Len(h) : h[i].content = args.query})

\* C16: when the workflow is about to run its first node, the last turn of the
\* conversation history is the user turn of the current query, the query is
\* the content of exactly one turn more than in the history the caller
\* supplied, and in a call of the front end the history is the chat as it
\* stands, with the submitted query once at its end
C16_QueryIsLastTurn ==
    pc = "parse_intent" =>
        LET h == state.conversation_history
        IN /\ h # << >>
           /\ h[Len(h)] = UserTurn
           /\ QueryCount(h) = QueryCount(InputHistory) + 1
           /\ messages # << >> => h = messages

\* the front end submitted a query that the chat already holds as an earlier
\* user turn, after an answered exchange
C16_Witness ==
    /\ pc = "parse_intent"
    /\ Len(messages) = 3
    /\ messages[2].role = "assistant"
    /\ QueryCount(InputHistory) = 1
    /\ QueryCount(state.conversation_history) = 2

-----------------------------------------------------------------------------
(* C17 *)

\* the object INTENT_AGENT_MAP.get(intent, ["information"]) returns: the list
\* stored in the table (dict.get does not copy), or the default built for the call
INTENT_AGENT_MAP_get_object(intent) ==
    IF intent \in DOMAIN INTENT_AGENT_MAP THEN ModuleList(intent)
    ELSE CallList("default")

\* the object state["active_agents"] is bound to: the [] of initial_state
\* until _parse_customer_intent assigns what INTENT_AGENT_MAP.get returned
active_agents_object(st) ==
    IF st.current_stage = "initialized" THEN CallList("initial_state")
    ELSE INTENT_AGENT_MAP_get_object(st.intent)

\* the object metadata["active_agents"] of the returned dict is bound to:
\* result.get("active_agents", []) returns the state's list itself
metadata_active_agents_object(res) == active_agents_object(res)

\* C17 as stated, for the active set: the list of active agents held by the
\* state of a call, and the one in the result it returns, is an object of that
\* call, shared neither with another call nor with module-level data
C17_StateExclusivelyOwned ==
    /\ active_agents_object(state).space = "call"
    /\ pc = "returned" => metadata_active_agents_object(state).space = "call"

\* what the code does: the call returned a result whose active_agents is the
\* list of the module-level table, the same object for every call of that intent
C17_Witness ==
    /\ pc = "returned"
    /\ result.metadata.intent = "price_inquiry"
    /\ metadata_active_agents_object(state) = ModuleList("price_inquiry")
    /\ result.metadata.active_agents = INTENT_AGENT_MAP["price_inquiry"]

-----------------------------------------------------------------------------
(* C18 *)

StratQuery == "What's the difference between a Stratocaster and a Telecaster?"

\* C18: for the Stratocaster / Telecaster query the intent is, from the
\* intent-parsing step on, information_request with active set {information};
\* and when the information responder returned content, the returned final
\* response is the information section alone, followed by the closing lines,
\* and agents_involved has one element, the information responder's response
C18_StratVsTele ==
    (Parsed /\ args.query = StratQuery) =>
        /\ state.intent = "information_request"
        /\ Range(state.active_agents) = {"information"}
        /\ (pc = "returned" /\ HasContent(state, "information")) =>
              /\ result.final_response
                    = "### [books] Guitar Info\n" \o state.information_response.content
                      \o "\n\n---\n*Feel free to ask me more - I'm here to help you find your perfect guitar!* [guitar]\n"
              /\ Cardinality(Occurrences("### ", result.final_response)) = 1
              /\ Len(result.agents_involved) = 1
              /\ result.agents_involved[1].agent = "Information Agent"

\* the query ties information ("difference") and comparison ("between") at 1
\* and was answered by the information responder alone
C18_Witness ==
    /\ pc = "returned"
    /\ args.query = StratQuery
    /\ QueryScores["information_request"] = 1
    /\ QueryScores["comparison_request"] = 1
    /\ HasContent(state, "information")
    /\ Len(calls) = 1
    /\ calls[1].agent = "information"
    /\ Len(result.agents_involved) = 1

-----------------------------------------------------------------------------
(* C19 *)

\* C19 as stated: the history the information responder is called with is the
\* history the caller supplied, without the user turn of the current query
\* and without any turn added during the call
C19_InformationGetsPriorTurnsOnly ==
    \A i \in 1..Len(calls) :
        calls[i].agent = "information" => calls[i].history = InputHistory

\* what the code does: the information responder was called with the supplied
\* history followed by the user turn of the current query (the [:-1] of the
\* node drops the system turn the parsing step appended, not the user turn)
C19_Witness ==
    /\ Len(calls) >= 1
    /\ calls[1].agent = "information"
    /\ InputHistory # << >>
    /\ calls[1].history = InputHistory \o <<UserTurn>>

-----------------------------------------------------------------------------
(* C20 *)

\* C20 as stated: whenever the recommendation or the negotiation responder is
\* called, it is called with a history, and that history contains the turn of
\* the information responder, which ran before it in the same call
C20_LaterRespondersSeeEarlierTurns ==
    \A i \in 1..Len(calls) :
        calls[i].agent \in {"recommendation", "negotiation"} =>
            /\ "history" \in DOMAIN calls[i]
            /\ InList(AgentTurn("information"), calls[i].history)

\* what the code does: the recommendation responder was called with the
\* supplied history, the user turn and the system turn of the parsing step;
\* the [:-1] of the node dropped the information responder's turn, which the
\* state's history holds at that time
C20_Witness ==
    /\ Len(calls) = 2
    /\ calls[2].agent = "recommendation"
    /\ HasContent(state, "information")
    /\ InList(AgentTurn("information"), state.conversation_history)
    /\ SubSeq(calls[2].history, 1, Len(InputHistory)) = InputHistory
    /\ Len(calls[2].history) = Len(InputHistory) + 2
    /\ calls[2].history[Len(InputHistory) + 1] = UserTurn
    /\ calls[2].history[Len(InputHistory) + 2].role = "system"

-----------------------------------------------------------------------------
(* C21 *)

\* C21: until the intent-parsing step has run the intent and the active list
\* are the empty ones of the initial state; every step of a call after it
\* leaves the intent and the active list as they are; the query of the state
\* is the caller's query throughout; and the returned metadata carry the
\* intent and the active list of the state
C21_IntentWrittenOnce ==
    /\ [](pc = "parse_intent" => (state.intent = "" /\ state.active_agents = << >>))
    /\ [](pc # "idle" => state.customer_query = args.query)
    /\ [](pc = "returned" =>
             /\ result.metadata.intent = state.intent
             /\ result.metadata.active_agents = state.active_agents)
    /\ [][(Parsed /\ pc' # "idle") =>
             /\ state'.intent = state.intent
             /\ state'.active_agents = state.active_agents
             /\ state'.customer_query = state.customer_query]_vars

\* a call that ran three nodes after the parsing step returned with the
\* intent and the active list the parsing step wrote
C21_Witness ==
    /\ pc = "returned"
    /\ trace = <<"parse_intent", "information_node", "recommendation_node",
                 "synthesize_response">>
    /\ state.intent = "recommendation_request"
    /\ state.active_agents = <<"information", "recommendation">>
    /\ state.customer_query = args.query

-----------------------------------------------------------------------------
(* C22 *)

\* b is a, or a with one turn appended
SameOrOneAppended(a, b) ==
    \/ b = a
    \/ Len(b) = Len(a) + 1 /\ SubSeq(b, 1, Len(a)) = a

\* C22: every step of a call leaves the history as it is or appends one turn
\* at its end; the history the caller supplied is a prefix of the history of
\* every state of the call; and the returned history is the history of the
\* final state
C22_HistoryAppendOnly ==
    /\ [](pc # "idle" => IsPrefix(InputHistory, state.conversation_history))
    /\ [](pc = "returned" => result.conversation_history = state.conversation_history)
    /\ [][(pc # "idle" /\ pc' # "idle") =>
             SameOrOneAppended(state.conversation_history,
                               state'.conversation_history)]_vars

\* a call with a supplied history returned after the parsing step and two
\* responders had each appended a turn
C22_Witness ==
    /\ pc = "returned"
    /\ InputHistory # << >>
    /\ Len(trace) = 4
    /\ Len(result.conversation_history) = Len(InputHistory) + 4
    /\ IsPrefix(InputHistory, result.conversation_history)

\* the thread's query matches no document of its instance's catalog, or the
\* instance has no catalog
NothingFound(t) ==
    LET self == instances[threads[t].using]
    IN \/ NoDocuments(self.documents)
       \/ \A i \in 1..Len(self.documents.v) :
             MatchScore(py_split(str_lower(threads[t].query)), self.documents.v[i]) = 0

\* C23: whenever the retriever finds nothing for a query (no document of the
\* catalog matches it, or no catalog is loaded), retrieve_with_context returns
\* the sentinel "No relevant information found in the knowledge base."
C23_NothingFoundGivesSentinel ==
    \A t \in Threads :
        (threads[t].pc = "returned" /\ threads[t].path = "keyword" /\ NothingFound(t))
            => threads[t].context = NoInformationFound

\* no catalog was loaded and retrieve_with_context returned a block formatted
\* as catalog excerpts around the message of the keyword search
C23_Witness ==
    \E t \in Threads :
        /\ threads[t].pc = "returned"
        /\ NoDocuments(instances[threads[t].using].documents)
        /\ threads[t].results = <<"No catalog data available.">>
        /\ threads[t].context =
              "Guitar Catalog Excerpts:\n--- CATALOG ENTRY 1 ---\nNo catalog data available."

\* the instances the agents of the sessions hold
HeldInstances == {threads[t].rag[a] : t \in Threads, a \in 1..Len(NotStarted.rag)} \ {0}

\* C24: the retrieval system is initialized once per process: at most one
\* GuitarKnowledgeRAG instance is ever created, every caller of get_rag_system
\* holds that same instance, and a vector index is loaded or built at most
\* once (no two retrieve calls have each set the index of the instance)
C24_InitializedOnce ==
    /\ Len(instances) <= 1
    /\ Cardinality(HeldInstances) <= 1
    /\ \A t, u \in Threads :
          (t # u /\ threads[t].assigned /\ threads[u].assigned)
              => threads[t].using # threads[u].using

\* two concurrent first calls of get_rag_system each created an instance, and
\* the agents of the two orchestrators constructed hold different ones
C24_Witness ==
    /\ Len(instances) = 2
    /\ threads["t1"].pc = "ready"
    /\ threads["t2"].pc = "ready"
    /\ threads["t1"].rag = <<1, 1, 1>>
    /\ threads["t2"].rag = <<2, 2, 2>>
    /\ _rag_instance = 2

\* the match score of an excerpt for the thread's query
ScoreFor(t, excerpt) == MatchScore(py_split(str_lower(threads[t].query)), excerpt)

\* what a thread got back from the keyword fallback: at most k excerpts, each
\* a matching document of the loaded catalog, by non-increasing match score
\* (with no catalog loaded: the one message of the keyword search)
KeywordFallback(t) ==
    LET me   == threads[t]
        self == instances[me.using]
    IN IF NoDocuments(self.documents)
       THEN me.results = <<"No catalog data available.">>
       ELSE /\ Len(me.results) <= me.k
            /\ \A i \in 1..Len(me.results) :
                  /\ \E j \in 1..Len(self.documents.v) : self.documents.v[j] = me.results[i]
                  /\ ScoreFor(t, me.results[i]) > 0
            /\ \A i \in 1..(Len(me.results) - 1) :
                  ScoreFor(t, me.results[i]) >= ScoreFor(t, me.results[i + 1])

\* the index build of a retrieve call failed: the call got past the first
\* test of _create_vectorstore, and the method raised or returned without
\* having set an index
BuildFailed(me) ==
    me.attempted /\ (~me.assigned \/ me.raised_at \in {"from_documents", "save_local"})

\* what C29 says of every retrieve call, whatever failed: no call ends with
\* an exception; a call whose vector path raised returns the keyword search;
\* the keyword search answers only after the call entered the build or after
\* its search raised, with at most k excerpts of the loaded documents by
\* non-increasing match score; the vector search answers only from an index
\* the instance holds, and a call that never entered the build found one
NeverPropagates ==
    \A t \in Threads :
        /\ threads[t].pc # "raised"
        /\ threads[t].pc = "returned" =>
              /\ threads[t].raised_at # "" => threads[t].path = "keyword"
              /\ threads[t].path = "keyword" =>
                    /\ KeywordFallback(t)
                    /\ threads[t].called_create \/ threads[t].raised_at = "similarity_search"
              /\ threads[t].path = "vector" =>
                    /\ instances[threads[t].using].vectorstore.present
                    /\ Len(threads[t].results) <= threads[t].k
              /\ ~threads[t].called_create =>
                    instances[threads[t].using].vectorstore.present

C25_CallerHistoryUntouched ==
    /\ [](pc # "idle" =>
            /\ conversation_history_object(args.history).space = "call"
            /\ pc = "returned" =>
                  /\ IsPrefix(InputHistory, result.conversation_history)
                  /\ Len(result.conversation_history) > Len(InputHistory))
    /\ [][(pc # "idle" /\ pc' # "idle") => args'.history = args.history]_vars

\* a call that was given a non-empty history returned a longer one, and the
\* caller's list is as it was
C25_Witness ==
    /\ pc = "returned"
    /\ args.history.kind = "list"
    /\ Len(args.history.v) = MaxHistory
    /\ args.history \in Histories
    /\ Len(result.conversation_history) = Len(args.history.v) + 4

\* the responders whose node was executed in this call, in execution order
ExecutedResponders ==
    SelectSeq(Responders, LAMBDA r : InList(NodeOf(r), trace))

\* C26: the returned history is, turn by turn: the caller-supplied history,
\* one user turn with the query, one system turn "Detected intent: <intent> ->
\* activating: <agents>" of the intent and agents the query is classified to,
\* then one agent turn per responder that executed, named Information Agent,
\* Recommendation Agent, Price Negotiator Agent in that order and carrying the
\* responder's content even when it is empty; its length is
\* len(history) + 2 + the number of responders executed
C26_ReturnedHistoryShape ==
    pc = "returned" =>
        LET h      == result.conversation_history
            n      == Len(InputHistory)
            intent == _classify_intent(args.query)
        IN /\ Len(h) = n + 2 + Len(ExecutedResponders)
           /\ \A i \in 1..n : h[i] = InputHistory[i]
           /\ h[n + 1] = [role |-> "user", content |-> args.query]
           /\ h[n + 2].role = "system"
           /\ h[n + 2].content
                 = "Detected intent: " \o intent \o " -> activating: "
                   \o str_join(", ", INTENT_AGENT_MAP[intent])
           /\ \A i \in 1..Len(ExecutedResponders) :
                 /\ h[n + 2 + i].role = "agent"
                 /\ h[n + 2 + i].agent = AgentNameOf(ExecutedResponders[i])
                 /\ h[n + 2 + i].content = SlotOf(state, ExecutedResponders[i]).content

\* a call with a supplied history returned after the information and the
\* recommendation responder had run, the second with empty content: its turn
\* is in the history all the same
C26_Witness ==
    /\ pc = "returned"
    /\ Len(InputHistory) = 1
    /\ ExecutedResponders = <<"information", "recommendation">>
    /\ Len(result.conversation_history) = 5
    /\ result.conversation_history[5]
          = [role |-> "agent", agent |-> "Recommendation Agent", content |-> ""]

\* C27: the recommendation and the negotiation responder never both run in
\* one invocation: their nodes are never both in the trace, the agents are
\* never both called, at most two responders execute, the final response never
\* holds both a recommendation and a pricing section, and the edge
\* recommendation_node -> negotiation_node is never taken
C27_RecommendationXorNegotiation ==
    /\ [](/\ ~(InList("recommendation_node", trace) /\ InList("negotiation_node", trace))
          /\ ~(\E i, j \in 1..Len(calls) :
                  calls[i].agent = "recommendation" /\ calls[j].agent = "negotiation")
          /\ Len(ExecutedResponders) <= 2
          /\ Len(calls) <= 2
          /\ ~(str_in(RecHeading, state.final_response)
               /\ str_in(NegHeading, state.final_response))
          /\ pc = "returned" =>
                ~(str_in(RecHeading, result.final_response)
                  /\ str_in(NegHeading, result.final_response)))
    /\ [][pc = "recommendation_node" => pc' # "negotiation_node"]_vars

\* the recommendation node ran and its conditional edge led to the
\* synthesizer: the call returned a response with the recommendation section
\* and no pricing section
C27_Witness ==
    /\ pc = "returned"
    /\ trace = <<"parse_intent", "information_node", "recommendation_node",
                 "synthesize_response">>
    /\ str_in(RecHeading, result.final_response)
    /\ ~str_in(NegHeading, result.final_response)

\* the headings of the sections of a response text, in the order information,
\* recommendation, negotiation
SectionHeadingsIn(text) ==
    SelectSeq(<<InfoHeading, RecHeading, NegHeading>>, LAMBDA h : str_in(h, text))

\* the heading of the responder that produced an agents_involved entry
HeadingOfResult(resp) ==
    CASE resp.agent = "Information Agent"      -> InfoHeading
      [] resp.agent = "Recommendation Agent"   -> RecHeading
      [] resp.agent = "Price Negotiator Agent" -> NegHeading

\* C28: on every return agents_involved and the sections of final_response
\* agree: the responders whose results are in agents_involved are those whose
\* sections are in final_response, in the same order, each section carrying
\* the content of its result; agents_involved is empty iff final_response is
\* the fallback message
C28_InvolvedMatchesSections ==
    pc = "returned" =>
        LET involved == result.agents_involved
        IN /\ [i \in 1..Len(involved) |-> HeadingOfResult(involved[i])]
                 = SectionHeadingsIn(result.final_response)
           /\ \A i \in 1..Len(involved) :
                 str_in(HeadingOfResult(involved[i]) \o involved[i].content,
                        result.final_response)
           /\ (involved = << >>) <=> (result.final_response = FallbackBody \o Closing)

\* a call returned with two results in agents_involved and their two sections
\* in the response
C28_Witness ==
    /\ pc = "returned"
    /\ Len(result.agents_involved) = 2
    /\ result.agents_involved[2].agent = "Price Negotiator Agent"
    /\ SectionHeadingsIn(result.final_response) = <<InfoHeading, NegHeading>>

\* the demo the loop of run_demo_queries is at
CurrentDemo == demo.demo_queries[demo.idx].demo

\* C30: run_demo_queries processes each demo query with an empty prior
\* history and with the demo's preference mapping bound to the preferences
\* parameter, and each demo call returns a result whose final_response is
\* printed: no demo call raises and the script does not end in its error branch
C30_DemoCallsReturn ==
    /\ demo.pc = "calling" =>
          /\ args.query = CurrentDemo.query
          /\ args.history.kind = "none" \/ (args.history.kind = "list" /\ args.history.v = << >>)
          /\ args.preferences = demo_get_preferences(CurrentDemo)
          /\ pc # "raised"
    /\ demo.pc # "error"

\* option 1 was chosen, the first demo call got the demo's preference mapping
\* as its history and raised, nothing was printed and the script reported an
\* error
C30_Witness ==
    /\ demo.pc = "error"
    /\ demo.demo_queries[1].demo = demo_queries[1]
    /\ demo.idx = 1
    /\ demo.printed = << >>
    /\ pc = "raised"
    /\ trace = << >>
    /\ args.history = DictArg(demo_queries[1].preferences)
    /\ args.preferences = NoneArg

====
